---------------------------- MODULE Spec2Model ----------------------------
(***************************************************************************)
(* Hermes file-transfer backbone: the framed transfer engine               *)
(* (common/src/file_io.rs), the path sandbox and the file registry         *)
(* (server/src/io_tools.rs, io_loc.rs), the user directory                 *)
(* (server/src/credentials.rs), the durable record store                   *)
(* (common/src/file_io.rs), the transfer telemetry                         *)
(* (common/src/network_stats.rs) and the message protocol                  *)
(* (common/src/messages.rs, http_codes.rs).                                *)
(*                                                                         *)
(* Each component has its own specification (SpecTransfer, SpecPath,       *)
(* SpecFiles, SpecUsers, SpecStats, SpecAnalyzer, SpecMessages); the       *)
(* variables of the other components are held at their initial values.     *)
(* SpecStores runs one of the four persisted stores, chosen at the start.  *)
(* SpecLookup is SpecFiles with the registry's lookups added.              *)
(* SpecStartup runs ensure_directories (server/src/io_loc.rs) and then     *)
(* opens the three stores of the server on their side-files.               *)
(***************************************************************************)
EXTENDS Integers, Sequences, FiniteSets, TLC

VARIABLES
    \* ---- framed transfer engine (file_io.rs) ----
    contents,        \* the Vec<u8> handed to split_binary_for_network
    frames,          \* its result, the Vec<Vec<u8>> the sender writes
    declared,        \* the frame count the sender declared (0 before the split)
    stream,          \* TcpStream: bytes written by the peer and not yet read
    peer,            \* "idle" | "sent" | "closed": the sending side of the stream
    sink,            \* "binary" (receive_network_binary) | "file" (receive_network_file)
    frame_count,     \* receive_network_data: the frame_count argument
    frame_size,      \* receive_network_data: let mut frame_size (u32)
    windows_so_far,  \* receive_network_data: windows_so_far, in units of 1/BUFF_SIZE
    result,          \* the bytes delivered to the destination (buffer or file)
    reads,           \* number of s.read calls made so far
    rpc,             \* "idle" | "loop" | "true" | "false" | "panic"
    \* ---- path sandbox (io_tools.rs) ----
    link_target,     \* filesystem: where the symlink <root>/l1 points
    raw_path,        \* the client-supplied path string
    curr_dir,        \* the session's current directory
    joined,          \* move_relative's result (Option<PathBuf>)
    resolved,        \* resolve_path's result (Option<PathBuf>)
    accepted,        \* the pipeline's verdict on the request
    probe,           \* a path handed to is_path_valid on its own
    probe_valid,     \* what is_path_valid returned for it
    relative,        \* what make_relative returned for it (Option<PathBuf>)
    ppc,             \* "idle" | "requested" | "moved" | "resolved" | "done" | "probed" | "related"
    \* ---- file registry (io_tools.rs) ----
    file_path,       \* FileDatabase.file.path (JsonFile, Option<String>)
    data,            \* FileDatabase.data (Vec<ServerFile>)
    curr_id,         \* FileDatabase.curr_id
    files_disk,      \* the documents on disk, by file name
    files_call,      \* the last call made on the registry
    files_ret,       \* what it returned
    issued,          \* the ids successful register_file calls returned, in order
    \* ---- user directory (credentials.rs) ----
    users_path,      \* UserDatabase.path (Option<String>)
    users,           \* UserDatabase.users (Vec<Credentials>)
    users_disk,      \* the documents on disk, by file name
    users_open_doc,  \* the document the last open call found (None: no open call yet)
    users_call,      \* the last call made on the user directory
    users_ret,       \* what it returned
    \* ---- durable record store on its own (file_io.rs) ----
    json_path,       \* JsonFile.path (Option<String>)
    json_disk,       \* the documents on disk, by file name
    json_call,       \* the last call made on the JsonFile
    json_ret,        \* what it returned
    \* ---- transfer telemetry (network_stats.rs) ----
    stats_path,      \* NetworkAnalyzerData.file.path (JsonFile, Option<String>)
    stats,           \* NetworkAnalyzerData.stats (Vec<TransferStats>)
    stats_disk,      \* the documents on disk, by file name
    mutex,           \* NetworkAnalyzer.data's Mutex: its holder and its poison flag
    tpc,             \* per thread: where it is in its call, the call and its result
    loaded,          \* number of records the last successful open loaded
    acks,            \* number of record_transfer calls that returned Ok(())
    \* ---- message protocol (messages.rs) ----
    message,         \* the Message at hand
    msg_built,       \* the constructor call that built it (None: built by a peer)
    msg_out,         \* what each extract_* function returns for it
    mpc,             \* "idle" | "built" | "extracted"
    \* ---- which persisted store a run of SpecStores exercises ----
    focus,
    \* ---- server startup (io_loc.rs) ----
    ensured          \* what ensure_directories returned (None: not called yet)

transferVars == <<contents, frames, declared, stream, peer, sink, frame_count,
                  frame_size, windows_so_far, result, reads, rpc>>

pathVars == <<link_target, raw_path, curr_dir, joined, resolved, accepted,
              probe, probe_valid, relative, ppc>>

filesVars == <<file_path, data, curr_id, files_disk, files_call, files_ret, issued>>

usersVars == <<users_path, users, users_disk, users_open_doc, users_call, users_ret>>

jsonVars == <<json_path, json_disk, json_call, json_ret>>

statsVars == <<stats_path, stats, stats_disk, mutex, tpc, loaded, acks>>

messageVars == <<message, msg_built, msg_out, mpc>>

vars == <<transferVars, pathVars, filesVars, usersVars, jsonVars, statsVars,
          messageVars, focus, ensured>>

\* Option<T>: None, Some(x)
None == <<>>
Some(x) == <<x>>

Min(a, b) == IF a < b THEN a ELSE b

(***************************************************************************)
(* Framed transfer engine                                                  *)
(***************************************************************************)

\* const BUFF_SIZE: u32 = 4096
BUFF_SIZE == 4096

\* the literal of `vals.by_ref().take(10)`
TakeWidth == 10

\* std::mem::size_of::<u32>()
SizeOfU32 == 4

\* u32 values are kept as <<high half, low half>>, each half 16 bits wide
Half == 2 ^ 16
U32Zero == <<0, 0>>

\* a - n modulo 2^32, for 0 <= n < 2^16 * 2^15
U32WrappingSub(a, n) ==
    LET lo == a[2] - (n % Half)
        borrow == IF lo < 0 THEN 1 ELSE 0
        hi == a[1] - (n \div Half) - borrow
    IN  <<hi % Half, lo % Half>>

\* a >= n, for a u32 a and a natural n
U32AtLeast(a, n) ==
    \/ a[1] > n \div Half
    \/ a[1] = n \div Half /\ a[2] >= n % Half

\* frame_count * BUFF_SIZE modulo 2^32, and whether the product overflows u32
U32MulBuffSize(fc) == <<(fc \div (Half \div BUFF_SIZE)) % Half, (fc % (Half \div BUFF_SIZE)) * BUFF_SIZE>>
MulBuffSizeOverflows(fc) == fc \div (Half \div BUFF_SIZE) >= Half

\* at most this many s.read calls are followed in one receive
MaxReads == 2

\* the byte sequences offered to the sender: none, below one frame, one frame,
\* one frame and a bit, two and three frames
Lengths == {0, 1, 9, 4095, 4096, 4097, 8192, 12288}

\* the frame_count arguments tried whatever the sender declared: none, one,
\* and the least u32 whose product with BUFF_SIZE is 2^32
ReceiveCounts == {0, 1, Half * (Half \div BUFF_SIZE)}

\* a byte sequence of length n; no byte of it is 0, the fill value of the
\* receiver's read buffer
Bytes(n) == [i \in 1..n |-> (i % 251) + 1]

\* Iterator::take(n).collect() and what it leaves in the iterator
Take(s, n) == SubSeq(s, 1, Min(n, Len(s)))
Drop(s, n) == SubSeq(s, Min(n, Len(s)) + 1, Len(s))

\* the while loop of split_binary_for_network: iteration k pushes the next
\* TakeWidth values (fewer in the last iteration), until none is left
SplitLoop(vals) ==
    LET iterations == (Len(vals) + TakeWidth - 1) \div TakeWidth
    IN  [k \in 1..iterations |-> Take(Drop(vals, (k - 1) * TakeWidth), TakeWidth)]

split_binary_for_network(c) ==
    LET windows == (Len(c) \div 4096) + 1
    IN  IF windows = 1 THEN <<c>> ELSE SplitLoop(c)

\* the bytes of frames lo..hi of a list of frames, in order
RECURSIVE WriteAll(_, _, _)
WriteAll(fs, lo, hi) ==
    IF lo > hi THEN <<>>
    ELSE IF lo = hi THEN fs[lo]
    ELSE LET mid == (lo + hi) \div 2
         IN  WriteAll(fs, lo, mid) \o WriteAll(fs, mid + 1, hi)

\* vec![0; size_of::<u32>() * BUFF_SIZE] after s.read put len bytes in it
ReadBuffer(len) ==
    [i \in 1..(SizeOfU32 * BUFF_SIZE) |-> IF i <= len THEN stream[i] ELSE 0]

\* the lengths s.read may return: any 1..min(buffer, available); 0 at end of
\* stream; none (the read blocks) while the peer is silent but connected
ReadLens ==
    LET avail == Min(Len(stream), SizeOfU32 * BUFF_SIZE)
    IN  IF avail > 0 THEN {n \in {1, TakeWidth, BUFF_SIZE, avail} : n <= avail}
        ELSE IF peer = "closed" THEN {0}
        ELSE {}

TransferInit ==
    /\ contents \in {Bytes(n) : n \in Lengths}
    /\ frames = <<>>
    /\ declared = 0
    /\ stream = <<>>
    /\ peer = "idle"
    /\ sink \in {"binary", "file"}
    /\ frame_count = 0
    /\ frame_size = U32Zero
    /\ windows_so_far = 0
    /\ result = <<>>
    /\ reads = 0
    /\ rpc = "idle"

\* the sender: split the contents, declare the number of frames, write the
\* frames to the stream in order
SendFrames ==
    /\ peer = "idle"
    /\ frames' = split_binary_for_network(contents)
    /\ declared' = Len(frames')
    /\ stream' = stream \o WriteAll(frames', 1, Len(frames'))
    /\ peer' = "sent"
    /\ UNCHANGED <<contents, sink, frame_count, frame_size, windows_so_far,
                   result, reads, rpc>>
    /\ UNCHANGED <<pathVars, filesVars, usersVars, jsonVars, statsVars, messageVars, focus, ensured>>

\* the sender closes its end of the connection
PeerClose ==
    /\ peer = "sent"
    /\ peer' = "closed"
    /\ UNCHANGED <<contents, frames, declared, stream, sink, frame_count,
                   frame_size, windows_so_far, result, reads, rpc>>
    /\ UNCHANGED <<pathVars, filesVars, usersVars, jsonVars, statsVars, messageVars, focus, ensured>>

\* the loop condition `frame_size > 0 && windows_so_far < total_windows`
LoopCondition(fsize, wins, fc) == fsize # U32Zero /\ wins \div BUFF_SIZE < fc

\* receive_network_data without the `if frame_count == 0` early return: the
\* while condition is tested at once
ReceiveStart_unchecked(fc) ==
    /\ rpc = "idle"
    /\ frame_count' = fc
    /\ \/ /\ frame_size' = U32MulBuffSize(fc)
          /\ windows_so_far' = 0
          /\ rpc' = IF LoopCondition(frame_size', windows_so_far', fc) THEN "loop" ELSE "true"
       \/ /\ MulBuffSizeOverflows(fc)
          /\ rpc' = "panic"
          /\ UNCHANGED <<frame_size, windows_so_far>>
    /\ UNCHANGED <<contents, frames, declared, stream, peer, sink, result, reads>>
    /\ UNCHANGED <<pathVars, filesVars, usersVars, jsonVars, statsVars, messageVars, focus, ensured>>

\* receive_network_data up to its first read: lines 255-261
ReceiveStart(fc) ==
    /\ rpc = "idle"
    /\ frame_count' = fc
    /\ IF fc = 0
         THEN /\ rpc' = "false"
              /\ UNCHANGED <<frame_size, windows_so_far>>
         ELSE \/ /\ frame_size' = U32MulBuffSize(fc)
                 /\ windows_so_far' = 0
                 /\ rpc' = IF LoopCondition(frame_size', windows_so_far', fc) THEN "loop" ELSE "true"
              \/ \* frame_count * BUFF_SIZE overflows, overflow checks on
                 /\ MulBuffSizeOverflows(fc)
                 /\ rpc' = "panic"
                 /\ UNCHANGED <<frame_size, windows_so_far>>
    /\ UNCHANGED <<contents, frames, declared, stream, peer, sink, result, reads>>
    /\ UNCHANGED <<pathVars, filesVars, usersVars, jsonVars, statsVars, messageVars, focus, ensured>>

\* one iteration of the while loop with s.read returning Ok(len)
ReceiveRead ==
    /\ rpc = "loop"
    /\ reads < MaxReads
    /\ \E len \in ReadLens :
         /\ stream' = Drop(stream, len)
         /\ reads' = reads + 1
         /\ \/ \* p(&mut contents) is true: the whole buffer is delivered
               /\ result' = result \o ReadBuffer(len)
               /\ \/ /\ U32AtLeast(frame_size, len)
                     /\ frame_size' = U32WrappingSub(frame_size, len)
                     /\ windows_so_far' = windows_so_far + len
                     /\ rpc' = IF LoopCondition(frame_size', windows_so_far', frame_count)
                                 THEN "loop" ELSE "true"
                  \/ \* frame_size -= len below zero, overflow checks on
                     /\ ~U32AtLeast(frame_size, len)
                     /\ rpc' = "panic"
                     /\ UNCHANGED <<frame_size, windows_so_far>>
                  \/ \* frame_size -= len below zero, overflow checks off
                     /\ ~U32AtLeast(frame_size, len)
                     /\ frame_size' = U32WrappingSub(frame_size, len)
                     /\ windows_so_far' = windows_so_far + len
                     /\ rpc' = IF LoopCondition(frame_size', windows_so_far', frame_count)
                                 THEN "loop" ELSE "true"
            \/ \* file.write(x) fails: p is false
               /\ sink = "file"
               /\ rpc' = "false"
               /\ UNCHANGED <<result, frame_size, windows_so_far>>
    /\ UNCHANGED <<contents, frames, declared, peer, sink, frame_count>>
    /\ UNCHANGED <<pathVars, filesVars, usersVars, jsonVars, statsVars, messageVars, focus, ensured>>

\* s.read returns Err(_), and the destination is emptied on the way out
ReceiveReadErr_rollback ==
    /\ rpc = "loop"
    /\ reads < MaxReads
    /\ reads' = reads + 1
    /\ rpc' = "false"
    /\ result' = <<>>
    /\ UNCHANGED <<contents, frames, declared, stream, peer, sink, frame_count,
                   frame_size, windows_so_far>>
    /\ UNCHANGED <<pathVars, filesVars, usersVars, jsonVars, statsVars, messageVars, focus, ensured>>

\* s.read returns Err(_)
ReceiveReadErr ==
    /\ rpc = "loop"
    /\ reads < MaxReads
    /\ reads' = reads + 1
    /\ rpc' = "false"
    /\ UNCHANGED <<contents, frames, declared, stream, peer, sink, frame_count,
                   frame_size, windows_so_far, result>>
    /\ UNCHANGED <<pathVars, filesVars, usersVars, jsonVars, statsVars, messageVars, focus, ensured>>



(***************************************************************************)
(* Path sandbox                                                            *)
(*                                                                         *)
(* A Path is the sequence of its components, as Path::components/iter      *)
(* yields them: "/" (RootDir) first when the path is absolute, ".."        *)
(* (ParentDir), a leading "." (CurDir), and names.  Path equality in Rust  *)
(* is equality of these sequences.                                         *)
(***************************************************************************)

\* a client string is lead-slash + segs joined by "/"; a segment may be
\* empty ("a//b", "a/")
RawString(lead, segs) == [lead |-> lead, segs |-> segs]

\* the segments client strings are built from
Segs == {"", ".", "..", "a", "l1", "etc", "passwd", "data"}

\* client strings have at most this many segments
MaxSegs == 3

\* paths handed to is_path_valid on their own have at most this many components
MaxComps == 5

RECURSIVE SeqsUpTo(_, _)
SeqsUpTo(S, n) ==
    IF n = 0 THEN {<<>>}
    ELSE LET shorter == SeqsUpTo(S, n - 1)
         IN  shorter \cup {Append(q, x) : q \in {r \in shorter : Len(r) = n - 1}, x \in S}

\* a relative string does not begin with an empty segment (it would begin with "/")
RawStrings ==
    {RawString(l, q) : l \in BOOLEAN, q \in SeqsUpTo(Segs, MaxSegs)} \
    {RawString(FALSE, q) : q \in {r \in SeqsUpTo(Segs, MaxSegs) : r # <<>> /\ r[1] = ""}}

\* "../../etc/passwd" and its deeper variants, and "/etc/passwd"
NotableStrings ==
    { RawString(FALSE, <<"..", "..", "etc", "passwd">>),
      RawString(FALSE, <<"..", "..", "..", "etc", "passwd">>),
      RawString(FALSE, <<"..", "..", "..", "..", "etc", "passwd">>),
      RawString(TRUE, <<"etc", "passwd">>) }

\* PathBuf::from(&str) seen through components(): empty segments vanish, "."
\* vanishes unless it is the first component of a relative path
PathBufFrom(raw) ==
    LET named(q) == SelectSeq(q, LAMBDA c : c # "" /\ c # ".")
    IN  IF raw.lead THEN <<"/">> \o named(raw.segs)
        ELSE IF raw.segs # <<>> /\ raw.segs[1] = "."
             THEN <<".">> \o named(Tail(raw.segs))
        ELSE named(raw.segs)

\* Path::is_absolute
is_absolute(path) == path # <<>> /\ path[1] = "/"

\* Path::join: an absolute argument replaces the base; otherwise its
\* components follow the base's, where a "." is no longer leading
PathJoin(base, path) ==
    IF is_absolute(path) THEN path
    ELSE IF base = <<>> THEN path
    ELSE base \o SelectSeq(path, LAMBDA c : c # ".")

\* my_home(): the home directory of the account the server runs as
Home == <<"/", "home">>

host_directory == PathJoin(Home, <<"cnt">>)
root_directory == PathJoin(host_directory, <<"data">>)

\* move_relative without the absolute-path test: Path::join replaces the base
move_relative_unchecked(raw, dir) == Some(PathJoin(dir, PathBufFrom(raw)))

move_relative(raw, dir) ==
    LET as_path == PathBufFrom(raw)
    IN  IF is_absolute(as_path) THEN None
        ELSE Some(PathJoin(dir, as_path))

\* the filesystem: directories, files, and one symlink <root>/l1 whose target
\* is link_target
Dirs == { <<"/">>, <<"/", "home">>, <<"/", "home", "cnt">>,
          <<"/", "home", "cnt", "data">>, <<"/", "home", "cnt", "data", "a">>,
          <<"/", "etc">> }
Files == { <<"/", "etc", "passwd">>, <<"/", "home", "cnt", "users.json">>,
           <<"/", "home", "cnt", "data", "a", "passwd">> }
Link == <<"/", "home", "cnt", "data", "l1">>

LinkTargets == { <<"/", "etc">>, <<"..">>, <<"..", "..", "..">>, <<"a">>,
                 <<"/", "home", "cnt", "users.json">>, <<"l1">>, <<"a", "passwd">> }

\* the symlinks followed in one resolution before it is given up as a loop;
\* no client string here names the symlink more often than this
MaxLinkHops == 8

Parent(p) == IF Len(p) <= 1 THEN p ELSE SubSeq(p, 1, Len(p) - 1)

\* realpath from the resolved directory cur over the components still to walk
RECURSIVE Walk(_, _, _)
Walk(cur, rest, hops) ==
    IF rest = <<>> THEN Some(cur)
    ELSE LET c == Head(rest)
             next == cur \o <<c>>
         IN  IF c = "/" THEN Walk(<<"/">>, Tail(rest), hops)
             ELSE IF c = "." THEN Walk(cur, Tail(rest), hops)
             ELSE IF c = ".." THEN Walk(Parent(cur), Tail(rest), hops)
             ELSE IF next \in Dirs THEN Walk(next, Tail(rest), hops)
             ELSE IF next \in Files
                  THEN (IF Tail(rest) = <<>> THEN Some(next) ELSE None)
             ELSE IF next = Link
                  THEN (IF hops = 0 THEN None
                        ELSE Walk(cur, link_target \o Tail(rest), hops - 1))
             ELSE None

\* std::fs::canonicalize; a relative path starts at the process's working
\* directory
canonicalize(path) == Walk(host_directory, path, MaxLinkHops)

resolve_path(path) == canonicalize(path)

\* is_path_valid deciding on the number of components alone
is_path_valid_len_only(path) == Len(path) >= Len(root_directory)

\* is_path_valid taking one component too few in `take(target_size)`
is_path_valid_off_by_one(path) ==
    LET root_dir == root_directory
        our_path_len == Len(path)
        target_size == Len(root_dir)
    IN  IF our_path_len = target_size /\ path = root_dir THEN TRUE
        ELSE IF our_path_len < target_size THEN FALSE
        ELSE Take(path, target_size - 1) = Take(root_dir, target_size - 1)

is_path_valid(path) ==
    LET root_dir == root_directory
        our_path_len == Len(path)
        target_size == Len(root_dir)
    IN  IF our_path_len = target_size /\ path = root_dir THEN TRUE
        ELSE IF our_path_len < target_size THEN FALSE
        ELSE Take(path, target_size) = root_dir

\* Path::strip_prefix(base).ok(): the components after base, when base is a
\* prefix of the path's components
strip_prefix(path, base) ==
    IF Len(path) >= Len(base) /\ Take(path, Len(base)) = base
      THEN Some(Drop(path, Len(base)))
      ELSE None

make_relative(path) ==
    IF ~is_path_valid(path) THEN None
    ELSE IF is_absolute(path) THEN Some(path)
    ELSE strip_prefix(path, root_directory)

\* the current directories a session can be in: under the sandbox root
CurrDirs == {root_directory, root_directory \o <<"a">>}

\* the components of paths handed to is_path_valid on their own
Comps == {"/", "home", "cnt", "data", ".."}

PathInit ==
    /\ link_target \in LinkTargets
    /\ raw_path = RawString(FALSE, <<>>)
    /\ curr_dir = root_directory
    /\ joined = None
    /\ resolved = None
    /\ accepted = FALSE
    /\ probe = <<>>
    /\ probe_valid = FALSE
    /\ relative = None
    /\ ppc = "idle"

\* a client request names a path while the session is in some directory
Request(raw, dir) ==
    /\ ppc = "idle"
    /\ raw_path' = raw
    /\ curr_dir' = dir
    /\ joined' = None
    /\ resolved' = None
    /\ accepted' = FALSE
    /\ ppc' = "requested"
    /\ UNCHANGED <<link_target, probe, probe_valid, relative>>
    /\ UNCHANGED <<transferVars, filesVars, usersVars, jsonVars, statsVars, messageVars, focus, ensured>>

\* step 1: move_relative; no result rejects the request
MoveRelative ==
    /\ ppc = "requested"
    /\ joined' = move_relative(raw_path, curr_dir)
    /\ ppc' = IF joined' = None THEN "done" ELSE "moved"
    /\ UNCHANGED <<link_target, raw_path, curr_dir, resolved, accepted, probe, probe_valid, relative>>
    /\ UNCHANGED <<transferVars, filesVars, usersVars, jsonVars, statsVars, messageVars, focus, ensured>>

\* step 2: resolve_path; no result rejects the request
ResolvePath ==
    /\ ppc = "moved"
    /\ resolved' = resolve_path(joined[1])
    /\ ppc' = IF resolved' = None THEN "done" ELSE "resolved"
    /\ UNCHANGED <<link_target, raw_path, curr_dir, joined, accepted, probe, probe_valid, relative>>
    /\ UNCHANGED <<transferVars, filesVars, usersVars, jsonVars, statsVars, messageVars, focus, ensured>>

\* step 3: is_path_valid on the canonical path decides
IsPathValid ==
    /\ ppc = "resolved"
    /\ accepted' = is_path_valid(resolved[1])
    /\ ppc' = "done"
    /\ UNCHANGED <<link_target, raw_path, curr_dir, joined, resolved, probe, probe_valid, relative>>
    /\ UNCHANGED <<transferVars, filesVars, usersVars, jsonVars, statsVars, messageVars, focus, ensured>>

\* is_path_valid called on any path
ProbeIsPathValid(path) ==
    /\ ppc = "idle"
    /\ probe' = path
    /\ probe_valid' = is_path_valid(path)
    /\ ppc' = "probed"
    /\ UNCHANGED <<link_target, raw_path, curr_dir, joined, resolved, accepted, relative>>
    /\ UNCHANGED <<transferVars, filesVars, usersVars, jsonVars, statsVars, messageVars, focus, ensured>>

\* make_relative called on any path
ProbeMakeRelative(path) ==
    /\ ppc = "idle"
    /\ probe' = path
    /\ relative' = make_relative(path)
    /\ ppc' = "related"
    /\ UNCHANGED <<link_target, raw_path, curr_dir, joined, resolved, accepted, probe_valid>>
    /\ UNCHANGED <<transferVars, filesVars, usersVars, jsonVars, statsVars, messageVars, focus, ensured>>

(***************************************************************************)
(* Durable record store (JsonFile) and the documents on disk               *)
(***************************************************************************)

\* what a file on disk holds: nothing ("missing": no such file), the empty
\* text, text that is no JSON list, or a JSON list of records
Missing == [kind |-> "missing", list |-> <<>>]
EmptyText == [kind |-> "empty", list |-> <<>>]
Garbage == [kind |-> "garbage", list |-> <<>>]
JsonList(l) == [kind |-> "json", list |-> l]

\* Result<_, String>: Ok(v) with v a number (0 for the unit value), Err(msg)
Ok(v) == [ok |-> TRUE, val |-> v, err |-> <<>>]
Err(msg) == [ok |-> FALSE, val |-> 0, err |-> msg]
Panicked == [ok |-> FALSE, val |-> 0, err |-> <<"panic">>]

\* serde_json::to_string(&Vec<T>) and serde_json::from_str::<Vec<T>>
to_string(list) == JsonList(list)
from_str_ok(doc) == doc.kind = "json"
from_str(doc) == doc.list

\* JsonFile::is_open
is_open(path) == path # None

\* JsonFile::open without the is_open test: an open store is read again
JsonFileOpen_again(self_path, disk, name) ==
    IF disk[name] = Missing THEN "panic" ELSE "ok"

\* JsonFile::open(&mut self, path): "already" | "panic" | "ok".  File::open
\* fails on a missing file, and the fallback File::create unwraps self.path,
\* which is None whenever this line is reached
JsonFileOpen(self_path, disk, name) ==
    IF is_open(self_path) THEN "already"
    ELSE IF disk[name] = Missing THEN "panic"
    ELSE "ok"

(***************************************************************************)
(* File registry                                                           *)
(***************************************************************************)

\* a bound on FileDatabase.curr_id
MaxId == 3

\* a bound on the number of successful registrations followed
MaxIssued == 3

FileNames == {"files.json", "new.json"}

\* paths that exist on the filesystem, and one that does not
OnDisk == {"p1", "p2"}
RegPaths == OnDisk \cup {"nx"}

alice == [username |-> "alice", password |-> "right"]
bob == [username |-> "bob", password |-> "pw"]

\* ServerFile { id, path, kind, owner }
ServerFile(id, path, kind, owner) == [path |-> path, kind |-> kind, id |-> id, owner |-> owner]

\* the documents files.json may hold when the server starts
StartDocuments ==
    { EmptyText, Garbage, JsonList(<<>>),
      JsonList(<<ServerFile(1, "p1", "text", None)>>),
      JsonList(<<ServerFile(1, "p1", "text", Some(alice)), ServerFile(2, "p2", "text", None)>>),
      JsonList(<<ServerFile(1, "p1", "text", None), ServerFile(2, "p1", "text", Some(bob))>>) }

Call(op, path, id) == [path |-> path, id |-> id, op |-> op]

FilesInit ==
    /\ file_path = None
    /\ data = <<>>
    /\ curr_id = 0
    /\ files_disk \in {[n \in FileNames |-> IF n = "files.json" THEN d ELSE Missing] :
                         d \in StartDocuments}
    /\ files_call = Call("new", "", 0)
    /\ files_ret = Ok(0)
    /\ issued = <<>>

Running == files_ret # Panicked

\* self.data.iter().map(|x| x.id).max(), None => 0
MaxIdOf(list) ==
    IF list = <<>> THEN 0
    ELSE CHOOSE m \in {list[i].id : i \in DOMAIN list} :
           \A i \in DOMAIN list : list[i].id <= m

\* FileDatabase::open
FilesOpen(name) ==
    /\ Running
    /\ files_call' = Call("open", name, 0)
    /\ LET opened == JsonFileOpen(file_path, files_disk, name)
       IN  CASE opened = "already" ->
                  /\ files_ret' = Err(<<"file already opened, at path", file_path[1]>>)
                  /\ UNCHANGED <<file_path, data, curr_id>>
             [] opened = "panic" ->
                  /\ files_ret' = Panicked
                  /\ UNCHANGED <<file_path, data, curr_id>>
             [] opened = "ok" ->
                  /\ file_path' = Some(name)
                  /\ IF from_str_ok(files_disk[name])
                       THEN /\ data' = from_str(files_disk[name])
                            /\ curr_id' = MaxIdOf(data')
                            /\ files_ret' = Ok(0)
                       ELSE /\ files_ret' = Err(<<"parse error">>)
                            /\ UNCHANGED <<data, curr_id>>
    /\ UNCHANGED <<files_disk, issued>>
    /\ UNCHANGED <<transferVars, pathVars, usersVars, jsonVars, statsVars, messageVars, focus, ensured>>

\* FileDatabase::save: JsonFile::save is a no-op while unopened
FilesSave ==
    /\ Running
    /\ files_call' = Call("save", "", 0)
    /\ files_disk' = IF is_open(file_path)
                       THEN [files_disk EXCEPT ![file_path[1]] = to_string(data)]
                       ELSE files_disk
    /\ files_ret' = Ok(0)
    /\ UNCHANGED <<file_path, data, curr_id, issued>>
    /\ UNCHANGED <<transferVars, pathVars, usersVars, jsonVars, statsVars, messageVars, focus, ensured>>

\* FileDatabase::close
FilesClose ==
    /\ Running
    /\ files_call' = Call("close", "", 0)
    /\ data' = <<>>
    /\ file_path' = None
    /\ files_ret' = Ok(0)
    /\ UNCHANGED <<curr_id, files_disk, issued>>
    /\ UNCHANGED <<transferVars, pathVars, usersVars, jsonVars, statsVars, messageVars, focus, ensured>>

\* iter().find(..) looking at the last record only
find_path_last_only(list, path) ==
    IF list # <<>> /\ list[Len(list)].path = path THEN Some(list[Len(list)]) ELSE None

\* self.data.iter().find(|x| x.path == path): the first record with the path
find_path(list, path) ==
    LET hits == {i \in DOMAIN list : list[i].path = path}
    IN  IF hits = {} THEN None
        ELSE Some(list[CHOOSE i \in hits : \A j \in hits : i <= j])

\* the id taken for the record's position in the list
find_id_by_position(list, id) == IF id \in DOMAIN list THEN Some(id) ELSE None

\* self.data.iter().find(|x| x.id == id): the index of the first record with the id
find_id(list, id) ==
    LET hits == {i \in DOMAIN list : list[i].id = id}
    IN  IF hits = {} THEN None
        ELSE Some(CHOOSE i \in hits : \A j \in hits : i <= j)

\* Option<_> results of the lookups: a &ServerFile is the position of the
\* record in self.data, an id is the number itself
OptNone == [ok |-> FALSE, val |-> 0, err |-> <<>>]
OptSome(v) == Ok(v)

\* FileDatabase::get_file
get_file(list, id) == find_id(list, id)

\* FileDatabase::get_file_id
get_file_id(list, path) ==
    LET found == find_path(list, path)
    IN  IF found = None THEN None ELSE Some(found[1].id)

\* the owner's name as the messages and Debug/Display print it
owner_name(file) == IF file.owner # None THEN file.owner[1].username ELSE "any"

\* FileDatabase::register_file
RegisterFile(path, owner, kind) ==
    /\ Running
    /\ curr_id < MaxId
    /\ Len(issued) < MaxIssued
    /\ files_call' = Call("register_file", path, 0)
    /\ LET prev_contained == find_path(data, path)
       IN  IF prev_contained # None
             THEN /\ files_ret' = Err(<<"path previously contained by owner",
                                        owner_name(prev_contained[1])>>)
                  /\ UNCHANGED <<data, curr_id, issued>>
             ELSE \* get_next_id() runs before ServerFile::new tests path.exists()
                  /\ curr_id' = curr_id + 1
                  /\ IF path \in OnDisk
                       THEN /\ data' = Append(data, ServerFile(curr_id', path, kind, owner))
                            /\ files_ret' = Ok(curr_id')
                            /\ issued' = Append(issued, curr_id')
                       ELSE /\ files_ret' = Err(<<"path provided does not exist">>)
                            /\ UNCHANGED <<data, issued>>
    /\ UNCHANGED <<file_path, files_disk>>
    /\ UNCHANGED <<transferVars, pathVars, usersVars, jsonVars, statsVars, messageVars, focus, ensured>>

\* FileDatabase::set_file_owner
SetFileOwner(id, user) ==
    /\ Running
    /\ files_call' = Call("set_file_owner", "", id)
    /\ LET file == find_id(data, id)
       IN  IF file = None
             THEN /\ files_ret' = Err(<<"file not found with id">>)
                  /\ UNCHANGED data
             ELSE /\ data' = [data EXCEPT ![file[1]].owner = Some(user)]
                  /\ files_ret' = Ok(0)
    /\ UNCHANGED <<file_path, curr_id, files_disk, issued>>
    /\ UNCHANGED <<transferVars, pathVars, usersVars, jsonVars, statsVars, messageVars, focus, ensured>>

GetFile(id) ==
    /\ Running
    /\ files_call' = Call("get_file", "", id)
    /\ LET file == get_file(data, id)
       IN  files_ret' = IF file = None THEN OptNone ELSE OptSome(file[1])
    /\ UNCHANGED <<file_path, data, curr_id, files_disk, issued>>
    /\ UNCHANGED <<transferVars, pathVars, usersVars, jsonVars, statsVars, messageVars, focus, ensured>>

GetFileId(path) ==
    /\ Running
    /\ files_call' = Call("get_file_id", path, 0)
    /\ LET id == get_file_id(data, path)
       IN  files_ret' = IF id = None THEN OptNone ELSE OptSome(id[1])
    /\ UNCHANGED <<file_path, data, curr_id, files_disk, issued>>
    /\ UNCHANGED <<transferVars, pathVars, usersVars, jsonVars, statsVars, messageVars, focus, ensured>>

\* outside the server, while the registry is closed: the record with the
\* highest id is removed from the persisted document
RemoveHighestRecord ==
    /\ Running
    /\ ~is_open(file_path)
    /\ files_disk["files.json"].kind = "json"
    /\ files_disk["files.json"].list # <<>>
    /\ LET list == files_disk["files.json"].list
           top == MaxIdOf(list)
       IN  files_disk' = [files_disk EXCEPT !["files.json"] =
                            JsonList(SelectSeq(list, LAMBDA r : r.id # top))]
    /\ files_call' = Call("edit", "files.json", 0)
    /\ UNCHANGED <<file_path, data, curr_id, files_ret, issued>>
    /\ UNCHANGED <<transferVars, pathVars, usersVars, jsonVars, statsVars, messageVars, focus, ensured>>

(***************************************************************************)
(* User directory                                                          *)
(***************************************************************************)

Credentials(username, password) == [username |-> username, password |-> password]

UserNames == {"alice", "bob", "carol"}
Passwords == {"right", "wrong", "pw"}

UserFileNames == {"users.json", "absent.json"}

\* the documents users.json may hold when the server starts
UserDocuments ==
    { EmptyText, Garbage, JsonList(<<>>),
      JsonList(<<alice>>),
      JsonList(<<alice, bob>>),
      JsonList(<<alice, Credentials("alice", "pw")>>),
      JsonList(<<alice, alice>>),
      JsonList(<<alice, Credentials("bob", "")>>),
      JsonList(<<Credentials("", "pw")>>) }

\* what a call returned: a Result (open, save), an Option<&Credentials>
\* (get_user, get_user_mut) or an Option<bool> (validate_user)
NoCred == Credentials("", "")
RetOk == [kind |-> "Ok", err |-> <<>>, cred |-> NoCred, flag |-> FALSE]
RetErr(msg) == [kind |-> "Err", err |-> msg, cred |-> NoCred, flag |-> FALSE]
RetNone == [kind |-> "None", err |-> <<>>, cred |-> NoCred, flag |-> FALSE]
RetSomeCred(c) == [kind |-> "Some", err |-> <<>>, cred |-> c, flag |-> FALSE]
RetSomeBool(b) == [kind |-> "Some", err |-> <<>>, cred |-> NoCred, flag |-> b]

UserCall(op, name, password) == [name |-> name, password |-> password, op |-> op]

UsersInit ==
    /\ users_path = None
    /\ users = <<>>
    /\ users_disk \in {[n \in UserFileNames |-> IF n = "users.json" THEN d ELSE Missing] :
                         d \in UserDocuments}
    /\ users_open_doc = None
    /\ users_call = UserCall("new", "", "")
    /\ users_ret = RetOk

\* UserDatabase::validate
validate(path, list) ==
    IF path = None THEN FALSE
    ELSE \A i \in DOMAIN list : \A j \in DOMAIN list :
            ~(list[i].username = "" \/ list[i].password = "" \/ (i # j /\ list[i] = list[j]))

\* self.users.iter().find(|x| x.username == username)
find_user(list, username) ==
    LET hits == {i \in DOMAIN list : list[i].username = username}
    IN  IF hits = {} THEN None
        ELSE Some(list[CHOOSE i \in hits : \A j \in hits : i <= j])

\* UserDatabase::get_user: `self.path.as_ref()?` returns None while unopened
get_user(path, list, username) ==
    IF path = None THEN None ELSE find_user(list, username)

\* UserDatabase::get_user_mut: `self.path.as_ref();` has no `?`
get_user_mut(path, list, username) == find_user(list, username)

\* UserDatabase::validate_user
validate_user(path, list, username, password) ==
    LET target == get_user(path, list, username)
    IN  IF target = None THEN RetNone
        ELSE RetSomeBool(target[1].password = password)

\* UserDatabase::open.  No line of it assigns self.path.
UsersOpen(name) ==
    /\ users_call' = UserCall("open", name, "")
    /\ IF users_path # None
         THEN /\ users_ret' = RetErr(<<"already open at path", users_path[1]>>)
              /\ users_open_doc' = Some(users_disk[name])
              /\ UNCHANGED <<users, users_disk>>
         ELSE IF users_disk[name] = Missing
         THEN \* File::create makes the file; its handle is write-only, so
              \* read_to_string fails
              /\ users_disk' = [users_disk EXCEPT ![name] = EmptyText]
              /\ users_ret' = RetErr(<<"could not read">>)
              /\ users_open_doc' = Some(Missing)
              /\ UNCHANGED users
         ELSE LET text == IF users_disk[name] = EmptyText THEN JsonList(<<>>)
                          ELSE users_disk[name]
              IN  /\ users_open_doc' = Some(users_disk[name])
                  /\ UNCHANGED users_disk
                  /\ IF ~from_str_ok(text)
                       THEN /\ users_ret' = RetErr(<<"parsing error">>)
                            /\ UNCHANGED users
                       ELSE /\ users' = from_str(text)
                            /\ users_ret' = IF validate(users_path, users') THEN RetOk
                                            ELSE RetErr(<<"Duplicate or empty records found">>)
    /\ UNCHANGED users_path
    /\ UNCHANGED <<transferVars, pathVars, filesVars, jsonVars, statsVars, messageVars, focus, ensured>>

\* UserDatabase::save
UsersSave ==
    /\ users_call' = UserCall("save", "", "")
    /\ IF users_path = None
         THEN /\ users_ret' = RetErr(<<"no file opened">>)
              /\ UNCHANGED users_disk
         ELSE /\ users_disk' = [users_disk EXCEPT ![users_path[1]] = to_string(users)]
              /\ users_ret' = RetOk
    /\ UNCHANGED <<users_path, users, users_open_doc>>
    /\ UNCHANGED <<transferVars, pathVars, filesVars, jsonVars, statsVars, messageVars, focus, ensured>>

OptionCred(o) == IF o = None THEN RetNone ELSE RetSomeCred(o[1])

GetUser(name) ==
    /\ users_call' = UserCall("get_user", name, "")
    /\ users_ret' = OptionCred(get_user(users_path, users, name))
    /\ UNCHANGED <<users_path, users, users_disk, users_open_doc>>
    /\ UNCHANGED <<transferVars, pathVars, filesVars, jsonVars, statsVars, messageVars, focus, ensured>>

GetUserMut(name) ==
    /\ users_call' = UserCall("get_user_mut", name, "")
    /\ users_ret' = OptionCred(get_user_mut(users_path, users, name))
    /\ UNCHANGED <<users_path, users, users_disk, users_open_doc>>
    /\ UNCHANGED <<transferVars, pathVars, filesVars, jsonVars, statsVars, messageVars, focus, ensured>>

ValidateUser(name, password) ==
    /\ users_call' = UserCall("validate_user", name, password)
    /\ users_ret' = validate_user(users_path, users, name, password)
    /\ UNCHANGED <<users_path, users, users_disk, users_open_doc>>
    /\ UNCHANGED <<transferVars, pathVars, filesVars, jsonVars, statsVars, messageVars, focus, ensured>>

(***************************************************************************)
(* Durable record store on its own                                         *)
(***************************************************************************)

JsonFileNames == {"store.json", "absent.json"}

\* the texts store.json may hold at the start, and the texts handed to save
JsonDocuments == {EmptyText, Garbage, JsonList(<<>>)}

\* what a JsonFile call returned: Ok(text) (open), Ok(()) (save, with the
\* empty text), Err(msg), or a panic that unwinds into the caller
JsonOk(text) == [kind |-> "Ok", err |-> <<>>, text |-> text]
JsonErr(msg) == [kind |-> "Err", err |-> msg, text |-> EmptyText]
JsonPanic == [kind |-> "Panic", err |-> <<>>, text |-> EmptyText]

JsonCall(op, name) == [name |-> name, op |-> op]

JsonInit ==
    /\ json_path = None
    /\ json_disk \in {[n \in JsonFileNames |-> IF n = "store.json" THEN d ELSE Missing] :
                        d \in JsonDocuments}
    /\ json_call = JsonCall("new", "")
    /\ json_ret = JsonOk(EmptyText)

JsonRunning == json_ret # JsonPanic

\* JsonFile::open
JsonOpen(name) ==
    /\ JsonRunning
    /\ json_call' = JsonCall("open", name)
    /\ LET opened == JsonFileOpen(json_path, json_disk, name)
       IN  CASE opened = "already" ->
                  /\ json_ret' = JsonErr(<<"file already opened, at path", json_path[1]>>)
                  /\ UNCHANGED json_path
             [] opened = "panic" ->
                  /\ json_ret' = JsonPanic
                  /\ UNCHANGED json_path
             [] opened = "ok" ->
                  /\ json_path' = Some(name)
                  /\ json_ret' = JsonOk(json_disk[name])
    /\ UNCHANGED json_disk
    /\ UNCHANGED <<transferVars, pathVars, filesVars, usersVars, statsVars, messageVars, focus, ensured>>

\* JsonFile::save
JsonSave(text) ==
    /\ JsonRunning
    /\ json_call' = JsonCall("save", "")
    /\ json_disk' = IF is_open(json_path)
                      THEN [json_disk EXCEPT ![json_path[1]] = text]
                      ELSE json_disk
    /\ json_ret' = JsonOk(EmptyText)
    /\ UNCHANGED json_path
    /\ UNCHANGED <<transferVars, pathVars, filesVars, usersVars, statsVars, messageVars, focus, ensured>>

\* JsonFile::close
JsonClose ==
    /\ JsonRunning
    /\ json_call' = JsonCall("close", "")
    /\ json_path' = None
    /\ json_ret' = JsonOk(EmptyText)
    /\ UNCHANGED json_disk
    /\ UNCHANGED <<transferVars, pathVars, filesVars, usersVars, statsVars, messageVars, focus, ensured>>

(***************************************************************************)
(* Transfer telemetry                                                      *)
(*                                                                         *)
(* An f32 is kept as the exact fraction <<numerator, denominator>> in      *)
(* lowest terms with a positive denominator; NaN is <<0, 0>> and the       *)
(* infinities are <<1, 0>> and <<-1, 0>>.  The rounding of f32 results to  *)
(* 24 significant bits is left out.                                        *)
(***************************************************************************)

NaN == <<0, 0>>

Abs(n) == IF n < 0 THEN 0 - n ELSE n

RECURSIVE Gcd(_, _)
Gcd(a, b) == IF b = 0 THEN a ELSE Gcd(b, a % b)

\* the fraction n/d in lowest terms
Frac(n, d) ==
    IF d = 0 THEN (IF n = 0 THEN NaN ELSE <<(IF n > 0 THEN 1 ELSE -1), 0>>)
    ELSE LET g == Gcd(Abs(n), Abs(d))
             sign == IF d < 0 THEN -1 ELSE 1
         IN  <<(sign * n) \div g, (sign * d) \div g>>

\* `file_size as f32`: exact for every file_size below 2^24
AsF32(n) == Frac(n, 1)

\* the f32 literals 0.0, 1.0 and 1e6
Zero == Frac(0, 1)
One == Frac(1, 1)
Million == Frac(1000000, 1)

\* a / b on f32: NaN when an operand is NaN, and for 0/0 and inf/inf
FDiv(a, b) ==
    IF a = NaN \/ b = NaN THEN NaN
    ELSE IF a[2] = 0 /\ b[2] = 0 THEN NaN
    ELSE IF b[2] = 0 THEN Zero
    ELSE Frac(a[1] * b[2], a[2] * b[1])

\* a > b on f32: false when an operand is NaN
FGt(a, b) ==
    /\ a # NaN /\ b # NaN
    /\ IF a[2] = 0 THEN a[1] > 0 /\ a # b
       ELSE IF b[2] = 0 THEN b[1] < 0
       ELSE a[1] * b[2] > b[1] * a[2]

\* TransferStats { file_size, transfer_time, data_rate, latency, ip }
TransferStats(file_size, transfer_time, data_rate, latency, ip) ==
    [file_size |-> file_size, transfer_time |-> transfer_time,
     data_rate |-> data_rate, latency |-> latency, ip |-> ip]

\* at most this many records are appended in one run
MaxStats == 2

StatsFileNames == {"stats.json", "absent.json"}

Ips == {"10.0.0.1", "10.0.0.2"}

\* file sizes in bytes and durations in seconds handed to record_transfer
Sizes == {0, 10000000}
Durations == {NaN, Frac(-1, 1), Zero, Frac(1, 2), Frac(2, 1)}

\* the documents stats.json may hold when the process starts
StatsDocuments ==
    { EmptyText, Garbage, JsonList(<<>>),
      JsonList(<<TransferStats(4000000, Frac(4, 1), One, Frac(1, 4), "10.0.0.1")>>) }

Threads == {"t1", "t2"}

\* what a call returned: a Result<(), String> (open, save, record_transfer)
\* or an Option<TransferStats> (get_last_stat_by_ip)
NoStat == TransferStats(0, Zero, Zero, Zero, "")
StatOk == [kind |-> "Ok", err |-> <<>>, stat |-> NoStat]
StatErr(msg) == [kind |-> "Err", err |-> msg, stat |-> NoStat]
StatNone == [kind |-> "None", err |-> <<>>, stat |-> NoStat]
StatSome(s) == [kind |-> "Some", err |-> <<>>, stat |-> s]

StatsCall(op, path, file_size, duration, ip) ==
    [path |-> path, op |-> op, file_size |-> file_size, ip |-> ip, duration |-> duration]

OpenCall(path) == StatsCall("open", path, 0, Zero, "")
SaveCall == StatsCall("save", "", 0, Zero, "")
RecordCall(file_size, duration, ip) == StatsCall("record_transfer", "", file_size, duration, ip)
LastCall(ip) == StatsCall("get_last_stat_by_ip", "", 0, Zero, ip)

\* a thread is "idle" (outside every call; ret is what its last call
\* returned), "locked" (it holds the MutexGuard and has not yet run the
\* call on the data), "returning" (the call on the data is done, the guard
\* not yet dropped) or "panicked"
Thread(pc, call, ret) == [pc |-> pc, call |-> call, ret |-> ret]

StatsInit ==
    /\ stats_path = None
    /\ stats = <<>>
    /\ stats_disk \in {[n \in StatsFileNames |-> IF n = "stats.json" THEN d ELSE Missing] :
                         d \in StatsDocuments}
    /\ mutex = [holder |-> None, poisoned |-> FALSE]
    /\ tpc = [t \in Threads |-> Thread("idle", StatsCall("new", "", 0, Zero, ""), StatOk)]
    /\ loaded = 0
    /\ acks = 0

\* a Mutex whose lock never waits
lock_always_available(m) == TRUE

\* Mutex::lock returns once no other thread holds the guard
lock_available(m) == m.holder = None

\* `self.data.lock().unwrap()`: the thread waits while another holds the
\* guard; on a poisoned mutex lock() returns Err and unwrap panics
Lock(t, call) ==
    /\ tpc[t].pc = "idle"
    /\ lock_available(mutex)
    /\ IF mutex.poisoned
         THEN /\ tpc' = [tpc EXCEPT ![t] = Thread("panicked", call, tpc[t].ret)]
              /\ UNCHANGED mutex
         ELSE /\ tpc' = [tpc EXCEPT ![t] = Thread("locked", call, tpc[t].ret)]
              /\ mutex' = [mutex EXCEPT !.holder = Some(t)]
    /\ UNCHANGED <<stats_path, stats, stats_disk, loaded, acks>>
    /\ UNCHANGED <<transferVars, pathVars, filesVars, usersVars, jsonVars, messageVars, focus, ensured>>

\* NetworkAnalyzerData::open under the guard.  A panic inside JsonFile::open
\* unwinds through the guard, which poisons the mutex and releases it.
AnalyzerOpen(t) ==
    /\ tpc[t].pc = "locked"
    /\ tpc[t].call.op = "open"
    /\ LET name == tpc[t].call.path
           opened == JsonFileOpen(stats_path, stats_disk, name)
       IN  CASE opened = "already" ->
                  /\ tpc' = [tpc EXCEPT ![t].pc = "returning",
                                        ![t].ret = StatErr(<<"file already opened, at path",
                                                             stats_path[1]>>)]
                  /\ UNCHANGED <<stats_path, stats, mutex, loaded>>
             [] opened = "panic" ->
                  /\ tpc' = [tpc EXCEPT ![t].pc = "panicked"]
                  /\ mutex' = [holder |-> None, poisoned |-> TRUE]
                  /\ UNCHANGED <<stats_path, stats, loaded>>
             [] opened = "ok" ->
                  /\ stats_path' = Some(name)
                  /\ UNCHANGED mutex
                  /\ IF from_str_ok(stats_disk[name])
                       THEN /\ stats' = from_str(stats_disk[name])
                            /\ loaded' = Len(stats')
                            /\ tpc' = [tpc EXCEPT ![t].pc = "returning", ![t].ret = StatOk]
                       ELSE /\ tpc' = [tpc EXCEPT ![t].pc = "returning",
                                                  ![t].ret = StatErr(<<"parse error">>)]
                            /\ UNCHANGED <<stats, loaded>>
    /\ UNCHANGED <<stats_disk, acks>>
    /\ UNCHANGED <<transferVars, pathVars, filesVars, usersVars, jsonVars, messageVars, focus, ensured>>

\* NetworkAnalyzerData::save under the guard
AnalyzerSave(t) ==
    /\ tpc[t].pc = "locked"
    /\ tpc[t].call.op = "save"
    /\ stats_disk' = IF is_open(stats_path)
                       THEN [stats_disk EXCEPT ![stats_path[1]] = to_string(stats)]
                       ELSE stats_disk
    /\ tpc' = [tpc EXCEPT ![t].pc = "returning", ![t].ret = StatOk]
    /\ UNCHANGED <<stats_path, stats, mutex, loaded, acks>>
    /\ UNCHANGED <<transferVars, pathVars, filesVars, usersVars, jsonVars, messageVars, focus, ensured>>

\* calculate_data_rate dividing by a thousand
calculate_data_rate_kilo(file_size, transfer_time) ==
    LET conv == AsF32(file_size)
    IN  IF FGt(transfer_time, Zero)
          THEN Some(FDiv(FDiv(conv, transfer_time), Frac(1000, 1)))
          ELSE None

\* calculate_data_rate that only refuses a zero duration
calculate_data_rate_nonzero(file_size, transfer_time) ==
    LET conv == AsF32(file_size)
    IN  IF transfer_time # Zero /\ transfer_time # NaN
          THEN Some(FDiv(FDiv(conv, transfer_time), Million))
          ELSE None

\* NetworkAnalyzerData::calculate_data_rate
calculate_data_rate(file_size, transfer_time) ==
    LET conv == AsF32(file_size)
    IN  IF FGt(transfer_time, Zero)
          THEN Some(FDiv(FDiv(conv, transfer_time), Million))
          ELSE None

\* NetworkAnalyzerData::record_transfer under the guard
RecordTransfer(t) ==
    /\ tpc[t].pc = "locked"
    /\ tpc[t].call.op = "record_transfer"
    /\ LET file_size == tpc[t].call.file_size
           duration == tpc[t].call.duration
           rate == calculate_data_rate(file_size, duration)
       IN  IF ~is_open(stats_path)
             THEN /\ tpc' = [tpc EXCEPT ![t].pc = "returning",
                                        ![t].ret = StatErr(<<"no file is loaded">>)]
                  /\ UNCHANGED stats
             ELSE IF rate = None
             THEN /\ tpc' = [tpc EXCEPT ![t].pc = "returning",
                                        ![t].ret = StatErr(<<"duration is less than or equal to zero">>)]
                  /\ UNCHANGED stats
             ELSE LET latency == FDiv(One, duration)
                      stat == TransferStats(file_size, duration, rate[1], latency,
                                            tpc[t].call.ip)
                  IN  /\ stats' = Append(stats, stat)
                      /\ tpc' = [tpc EXCEPT ![t].pc = "returning", ![t].ret = StatOk]
    /\ UNCHANGED <<stats_path, stats_disk, mutex, loaded, acks>>
    /\ UNCHANGED <<transferVars, pathVars, filesVars, usersVars, jsonVars, messageVars, focus, ensured>>

\* get_stats_by_ip keeping the records of every ip
get_stats_any_ip(path, list, ip) ==
    IF ~is_open(path) THEN None
    ELSE Some(list)

\* NetworkAnalyzerData::get_stats_by_ip
get_stats_by_ip(path, list, ip) ==
    IF ~is_open(path) THEN None
    ELSE Some(SelectSeq(list, LAMBDA x : x.ip = ip))

\* NetworkAnalyzerData::get_last_stat_by_ip
get_last_stat_by_ip(path, list, ip) ==
    IF ~is_open(path) THEN StatNone
    ELSE LET found == get_stats_by_ip(path, list, ip)
         IN  IF found = None THEN StatNone
             ELSE IF found[1] = <<>> THEN StatNone
             ELSE StatSome(found[1][Len(found[1])])

\* NetworkAnalyzer::get_last_stat_by_ip under the guard
GetLastStatByIp(t) ==
    /\ tpc[t].pc = "locked"
    /\ tpc[t].call.op = "get_last_stat_by_ip"
    /\ tpc' = [tpc EXCEPT ![t].pc = "returning",
                          ![t].ret = get_last_stat_by_ip(stats_path, stats, tpc[t].call.ip)]
    /\ UNCHANGED <<stats_path, stats, stats_disk, mutex, loaded, acks>>
    /\ UNCHANGED <<transferVars, pathVars, filesVars, usersVars, jsonVars, messageVars, focus, ensured>>

\* the call returns: the MutexGuard goes out of scope and the result reaches
\* the caller
Unlock(t) ==
    /\ tpc[t].pc = "returning"
    /\ tpc' = [tpc EXCEPT ![t].pc = "idle"]
    /\ mutex' = [mutex EXCEPT !.holder = None]
    /\ acks' = IF tpc[t].call.op = "record_transfer" /\ tpc[t].ret = StatOk
                 THEN acks + 1 ELSE acks
    /\ UNCHANGED <<stats_path, stats, stats_disk, loaded>>
    /\ UNCHANGED <<transferVars, pathVars, filesVars, usersVars, jsonVars, messageVars, focus, ensured>>

(***************************************************************************)
(* Message protocol                                                        *)
(*                                                                         *)
(* A serde_json::Value is a record with a tag t: "string" (s), "int" (an   *)
(* integer Number, n), "float" (a floating Number, f), "null" or "object"  *)
(* (o, a map from field names to Values).                                  *)
(***************************************************************************)

EmptyMap == [k \in {} |-> 0]

JString(s) == [n |-> 0, s |-> s, o |-> EmptyMap, t |-> "string", f |-> Zero]
JInt(n) == [n |-> n, s |-> "", o |-> EmptyMap, t |-> "int", f |-> Zero]
JFloat(f) == [n |-> 0, s |-> "", o |-> EmptyMap, t |-> "float", f |-> f]
JNull == [n |-> 0, s |-> "", o |-> EmptyMap, t |-> "null", f |-> Zero]
JObject(o) == [n |-> 0, s |-> "", o |-> o, t |-> "object", f |-> Zero]

MessageTypes == {"MessageType::Connect", "MessageType::Close", "MessageType::Ack",
                 "MessageType::Upload", "MessageType::Download", "MessageType::Delete",
                 "MessageType::Dir", "MessageType::Move", "MessageType::Subfolder",
                 "MessageType::Stats"}

MessageDirections == {"MessageDirection::Request", "MessageDirection::Response"}

\* enum HttpCodes, each variant with its discriminant
HttpCodes == {200, 401, 403, 404, 409, 418}

\* #[derive(Serialize, Deserialize)] on HttpCodes: a unit variant is written
\* as its name
HttpCodesName(code) ==
    CASE code = 200 -> "Ok"
      [] code = 401 -> "Unauthorized"
      [] code = 403 -> "Forbidden"
      [] code = 404 -> "NotFound"
      [] code = 409 -> "Conflict"
      [] code = 418 -> "ImNotATeapot"

\* impl Display for HttpCodes
HttpCodesDisplay(code) ==
    CASE code = 200 -> "OK"
      [] code = 401 -> "Unauthorized"
      [] code = 403 -> "Forbidden"
      [] code = 404 -> "Not Found"
      [] code = 409 -> "Conflict"
      [] code = 418 -> "I'm not a Teapot"

FileTypes == {"FileType::Text", "FileType::Audio", "FileType::Video",
              "FileType::Binary", "FileType::Archive"}

\* #[derive(Serialize, Deserialize)] on FileType
FileTypeName(kind) ==
    CASE kind = "FileType::Text" -> "Text"
      [] kind = "FileType::Audio" -> "Audio"
      [] kind = "FileType::Video" -> "Video"
      [] kind = "FileType::Binary" -> "Binary"
      [] kind = "FileType::Archive" -> "Archive"

SubfolderActions == {"SubfolderAction::Add", "SubfolderAction::Delete"}

\* #[derive(Serialize, Deserialize)] on SubfolderAction
SubfolderActionName(action) ==
    CASE action = "SubfolderAction::Add" -> "Add"
      [] action = "SubfolderAction::Delete" -> "Delete"

\* FileType written as its Display text
json_FileType_display(kind) ==
    JString(CASE kind = "FileType::Text" -> "text"
              [] kind = "FileType::Audio" -> "audio"
              [] kind = "FileType::Video" -> "video"
              [] kind = "FileType::Binary" -> "binary"
              [] kind = "FileType::Archive" -> "archive")

\* json!(x) for a String, a u32, an f32 (a NaN or an infinity becomes null),
\* the three enums and a TransferStats
json_string(s) == JString(s)
json_u32(n) == JInt(n)
json_f32(x) == IF x[2] = 0 THEN JNull ELSE JFloat(x)
json_HttpCodes(code) == JString(HttpCodesName(code))
json_FileType(kind) == JString(FileTypeName(kind))
json_SubfolderAction(action) == JString(SubfolderActionName(action))
json_TransferStats(st) ==
    JObject([file_size |-> json_u32(st.file_size),
             transfer_time |-> json_f32(st.transfer_time),
             data_rate |-> json_f32(st.data_rate),
             latency |-> json_f32(st.latency),
             ip |-> json_string(st.ip)])

\* serde_json::from_value::<T>(val) for the same types: Some(x) for Ok(x),
\* None for Err
from_value_String(val) == IF val.t = "string" THEN Some(val.s) ELSE None
from_value_u32(val) == IF val.t = "int" /\ val.n >= 0 THEN Some(val.n) ELSE None
from_value_f32(val) ==
    IF val.t = "float" THEN Some(val.f)
    ELSE IF val.t = "int" THEN Some(AsF32(val.n))
    ELSE None
from_value_HttpCodes(val) ==
    IF val.t = "string" /\ \E c \in HttpCodes : HttpCodesName(c) = val.s
      THEN Some(CHOOSE c \in HttpCodes : HttpCodesName(c) = val.s)
      ELSE None
from_value_FileType(val) ==
    IF val.t = "string" /\ \E k \in FileTypes : FileTypeName(k) = val.s
      THEN Some(CHOOSE k \in FileTypes : FileTypeName(k) = val.s)
      ELSE None
from_value_SubfolderAction(val) ==
    IF val.t = "string" /\ \E a \in SubfolderActions : SubfolderActionName(a) = val.s
      THEN Some(CHOOSE a \in SubfolderActions : SubfolderActionName(a) = val.s)
      ELSE None
StatsFields == {"file_size", "transfer_time", "data_rate", "latency", "ip"}
from_value_TransferStats(val) ==
    IF /\ val.t = "object"
       /\ StatsFields \subseteq DOMAIN val.o
       /\ from_value_u32(val.o["file_size"]) # None
       /\ from_value_f32(val.o["transfer_time"]) # None
       /\ from_value_f32(val.o["data_rate"]) # None
       /\ from_value_f32(val.o["latency"]) # None
       /\ from_value_String(val.o["ip"]) # None
      THEN Some(TransferStats(from_value_u32(val.o["file_size"])[1],
                              from_value_f32(val.o["transfer_time"])[1],
                              from_value_f32(val.o["data_rate"])[1],
                              from_value_f32(val.o["latency"])[1],
                              from_value_String(val.o["ip"])[1]))
      ELSE None

\* struct Message { message_type, direction, data }
Message(message_type, direction, map) ==
    [data |-> map, message_type |-> message_type, direction |-> direction]

\* Message::extract
extract(msg, property) ==
    IF property \in DOMAIN msg.data THEN Some(msg.data[property]) ELSE None

\* Message::extract_as::<T>, by T
extract_as_String(msg, property) ==
    IF extract(msg, property) = None THEN None
    ELSE from_value_String(extract(msg, property)[1])
extract_as_u32(msg, property) ==
    IF extract(msg, property) = None THEN None
    ELSE from_value_u32(extract(msg, property)[1])
extract_as_HttpCodes(msg, property) ==
    IF extract(msg, property) = None THEN None
    ELSE from_value_HttpCodes(extract(msg, property)[1])
extract_as_FileType(msg, property) ==
    IF extract(msg, property) = None THEN None
    ELSE from_value_FileType(extract(msg, property)[1])
extract_as_SubfolderAction(msg, property) ==
    IF extract(msg, property) = None THEN None
    ELSE from_value_SubfolderAction(extract(msg, property)[1])
extract_as_TransferStats(msg, property) ==
    IF extract(msg, property) = None THEN None
    ELSE from_value_TransferStats(extract(msg, property)[1])

\* make_message_data: HashMap::from_iter(zip(properties, values)); of two
\* equal keys the later one stays
make_message_data(properties, values) ==
    [k \in {properties[i] : i \in DOMAIN properties} |->
        values[CHOOSE i \in DOMAIN properties :
                 properties[i] = k /\ \A j \in DOMAIN properties : properties[j] = k => j <= i]]

connect_message(username, password) ==
    Message("MessageType::Connect", "MessageDirection::Request",
            make_message_data(<<"username", "password">>,
                              <<json_string(username), json_string(password)>>))

extract_connect_message(msg) ==
    IF msg.message_type # "MessageType::Connect" THEN None
    ELSE LET username == extract_as_String(msg, "username")
             password == extract_as_String(msg, "password")
         IN  IF username # None /\ password # None
               THEN Some(<<username[1], password[1]>>)
               ELSE None

\* ack_messsage; message is an Option<String>
ack_messsage(direction, code, msg_text) ==
    LET code_str == HttpCodesDisplay(code)
    IN  Message("MessageType::Ack", direction,
                make_message_data(<<"code", "message">>,
                                  <<json_HttpCodes(code),
                                    json_string(IF msg_text # None THEN msg_text[1]
                                                ELSE code_str)>>))

extract_ack_message(msg) ==
    IF msg.message_type # "MessageType::Ack" THEN None
    ELSE LET code == extract_as_HttpCodes(msg, "code")
             text == extract_as_String(msg, "message")
         IN  IF code # None /\ text # None
               THEN Some(<<code[1], text[1]>>)
               ELSE None

close_message ==
    Message("MessageType::Close", "MessageDirection::Request", EmptyMap)

upload_message(name, f_type, frame_count_arg) ==
    Message("MessageType::Upload", "MessageDirection::Request",
            make_message_data(<<"name", "type", "size">>,
                              <<json_string(name), json_FileType(f_type),
                                json_u32(frame_count_arg)>>))

\* extract_upload_message without its test of the message type
extract_upload_message_untyped(msg) ==
    LET name == extract_as_String(msg, "name")
        f_type == extract_as_FileType(msg, "type")
        count == extract_as_u32(msg, "size")
    IN  IF name # None /\ f_type # None /\ count # None
          THEN Some(<<name[1], f_type[1], count[1]>>)
          ELSE None

extract_upload_message(msg) ==
    IF msg.message_type # "MessageType::Upload" THEN None
    ELSE LET name == extract_as_String(msg, "name")
             f_type == extract_as_FileType(msg, "type")
             count == extract_as_u32(msg, "size")
         IN  IF name # None /\ f_type # None /\ count # None
               THEN Some(<<name[1], f_type[1], count[1]>>)
               ELSE None

download_message_request(path) ==
    Message("MessageType::Download", "MessageDirection::Request",
            make_message_data(<<"path">>, <<json_string(path)>>))

download_message_response(status, text, kind, frame_count_arg) ==
    Message("MessageType::Download", "MessageDirection::Response",
            make_message_data(<<"status", "message", "kind", "size">>,
                              <<json_HttpCodes(status), json_string(text),
                                json_FileType(kind), json_u32(frame_count_arg)>>))

extract_download_request_message(msg) ==
    IF msg.message_type # "MessageType::Download" THEN None
    ELSE extract_as_String(msg, "path")

extract_download_response_message(msg) ==
    IF msg.message_type # "MessageType::Download" THEN None
    ELSE LET status == extract_as_HttpCodes(msg, "status")
             text == extract_as_String(msg, "message")
             kind == extract_as_FileType(msg, "kind")
             size == extract_as_u32(msg, "size")
         IN  IF status # None /\ text # None /\ kind # None /\ size # None
               THEN Some(<<status[1], text[1], kind[1], size[1]>>)
               ELSE None

delete_message(path) ==
    Message("MessageType::Delete", "MessageDirection::Request",
            make_message_data(<<"path">>, <<json_string(path)>>))

extract_delete_message(msg) ==
    IF msg.message_type # "MessageType::Delete" THEN None
    ELSE extract_as_String(msg, "path")

dir_message_request ==
    Message("MessageType::Dir", "MessageDirection::Request", EmptyMap)

dir_message_response(status, text, dir, frame_count_arg) ==
    Message("MessageType::Dir", "MessageDirection::Response",
            make_message_data(<<"status", "message", "curr_dir", "size">>,
                              <<json_HttpCodes(status), json_string(text),
                                json_string(dir), json_u32(frame_count_arg)>>))

extract_dir_response_message(msg) ==
    IF msg.message_type # "MessageType::Dir" THEN None
    ELSE LET status == extract_as_HttpCodes(msg, "status")
             text == extract_as_String(msg, "message")
             dir == extract_as_String(msg, "curr_dir")
             size == extract_as_u32(msg, "size")
         IN  IF status # None /\ text # None /\ dir # None /\ size # None
               THEN Some(<<status[1], text[1], dir[1], size[1]>>)
               ELSE None

move_message(path) ==
    Message("MessageType::Move", "MessageDirection::Request",
            make_message_data(<<"path">>, <<json_string(path)>>))

extract_move_message(msg) ==
    IF msg.message_type # "MessageType::Move" THEN None
    ELSE extract_as_String(msg, "path")

subfolder_message(path, action) ==
    Message("MessageType::Subfolder", "MessageDirection::Request",
            make_message_data(<<"path", "action">>,
                              <<json_string(path), json_SubfolderAction(action)>>))

extract_subfolder_message(msg) ==
    IF msg.message_type # "MessageType::Subfolder" THEN None
    ELSE LET path == extract_as_String(msg, "path")
             action == extract_as_SubfolderAction(msg, "action")
         IN  IF path # None /\ action # None
               THEN Some(<<path[1], action[1]>>)
               ELSE None

stats_request_message ==
    Message("MessageType::Stats", "MessageDirection::Request", EmptyMap)

stats_response_message(st) ==
    Message("MessageType::Stats", "MessageDirection::Response",
            make_message_data(<<"stats">>, <<json_TransferStats(st)>>))

extract_stats_response_message(msg) ==
    IF msg.message_type # "MessageType::Stats" THEN None
    ELSE extract_as_TransferStats(msg, "stats")

\* the arguments the constructors are called with
Strings == {"alice", ""}
FrameCounts == {0, 7}
AckTexts == {None, Some("done")}
StatsArgs ==
    { TransferStats(10000000, Frac(2, 1), Frac(5, 1), Frac(1, 2), "10.0.0.1"),
      TransferStats(0, Frac(1, 2), Zero, Frac(2, 1), ""),
      \* 1.0 / duration overflows f32 for a subnormal duration
      TransferStats(1, Frac(1, 1000000), One, <<1, 0>>, "10.0.0.2") }

\* values a peer may put under a field name
PeerValues == {JNull, JInt(-1), JInt(7), JFloat(Frac(1, 2)), JString("text"), JString("bogus")}

\* the maps of peer-built messages: the map of a well-formed message, with a
\* field left out or holding another value
Without(d, k) == [x \in DOMAIN d \ {k} |-> d[x]]
With(d, k, v) == [x \in DOMAIN d |-> IF x = k THEN v ELSE d[x]]
PeerBases ==
    { EmptyMap,
      connect_message("alice", "pw").data,
      ack_messsage("MessageDirection::Response", 404, None).data,
      upload_message("a.txt", "FileType::Text", 7).data,
      download_message_request("a.txt").data,
      download_message_response(200, "done", "FileType::Audio", 7).data,
      dir_message_response(200, "done", "sub", 0).data,
      subfolder_message("sub", "SubfolderAction::Add").data,
      stats_response_message(TransferStats(10000000, Frac(2, 1), Frac(5, 1), Frac(1, 2),
                                           "10.0.0.1")).data }
PeerData ==
    PeerBases
    \cup {Without(d, k) : <<d, k>> \in {<<d, k>> \in PeerBases \X
                                      {"username", "password", "code", "message", "name",
                                       "type", "size", "path", "status", "kind", "curr_dir",
                                       "action", "stats"} : k \in DOMAIN d}}
    \cup {With(dkv[1], dkv[2], dkv[3]) :
            dkv \in {x \in PeerBases \X
                             {"username", "password", "code", "message", "name",
                              "type", "size", "path", "status", "kind", "curr_dir",
                              "action", "stats"} \X PeerValues : x[2] \in DOMAIN x[1]}}

Built(ctor, args) == Some([ctor |-> ctor, args |-> args])

MessageIdle ==
    /\ message = close_message
    /\ msg_built = None
    /\ msg_out = None
    /\ mpc = "idle"

MessageInit == MessageIdle

Construct(msg, ctor, args) ==
    /\ mpc = "idle"
    /\ message' = msg
    /\ msg_built' = Built(ctor, args)
    /\ mpc' = "built"
    /\ UNCHANGED msg_out
    /\ UNCHANGED <<transferVars, pathVars, filesVars, usersVars, jsonVars, statsVars, focus, ensured>>

ConnectMessage ==
    \E username \in Strings : \E password \in Strings :
        Construct(connect_message(username, password), "connect_message",
                  <<username, password>>)

AckMessage ==
    \E direction \in MessageDirections : \E code \in HttpCodes : \E text \in AckTexts :
        Construct(ack_messsage(direction, code, text), "ack_messsage",
                  <<direction, code, text>>)

CloseMessage == Construct(close_message, "close_message", <<>>)

UploadMessage ==
    \E name \in Strings : \E f_type \in FileTypes : \E count \in FrameCounts :
        Construct(upload_message(name, f_type, count), "upload_message",
                  <<name, f_type, count>>)

DownloadMessageRequest ==
    \E path \in Strings :
        Construct(download_message_request(path), "download_message_request", <<path>>)

DownloadMessageResponse ==
    \E status \in HttpCodes : \E text \in Strings : \E kind \in FileTypes :
      \E count \in FrameCounts :
        Construct(download_message_response(status, text, kind, count),
                  "download_message_response", <<status, text, kind, count>>)

DeleteMessage ==
    \E path \in Strings : Construct(delete_message(path), "delete_message", <<path>>)

DirMessageRequest == Construct(dir_message_request, "dir_message_request", <<>>)

DirMessageResponse ==
    \E status \in HttpCodes : \E text \in Strings : \E dir \in Strings :
      \E count \in FrameCounts :
        Construct(dir_message_response(status, text, dir, count),
                  "dir_message_response", <<status, text, dir, count>>)

MoveMessage ==
    \E path \in Strings : Construct(move_message(path), "move_message", <<path>>)

SubfolderMessage ==
    \E path \in Strings : \E action \in SubfolderActions :
        Construct(subfolder_message(path, action), "subfolder_message", <<path, action>>)

StatsRequestMessage == Construct(stats_request_message, "stats_request_message", <<>>)

StatsResponseMessage ==
    \E st \in StatsArgs :
        Construct(stats_response_message(st), "stats_response_message", <<st>>)

\* a message decoded from the bytes a peer sent
Receive ==
    /\ mpc = "idle"
    /\ \E message_type \in MessageTypes : \E direction \in MessageDirections :
         \E d \in PeerData : message' = Message(message_type, direction, d)
    /\ msg_built' = None
    /\ mpc' = "built"
    /\ UNCHANGED msg_out
    /\ UNCHANGED <<transferVars, pathVars, filesVars, usersVars, jsonVars, statsVars, focus, ensured>>

\* every extract_* function applied to the message
Extract ==
    /\ mpc = "built"
    /\ msg_out' = Some([extract_connect_message |-> extract_connect_message(message),
                        extract_ack_message |-> extract_ack_message(message),
                        extract_upload_message |-> extract_upload_message(message),
                        extract_download_request_message |->
                            extract_download_request_message(message),
                        extract_download_response_message |->
                            extract_download_response_message(message),
                        extract_delete_message |-> extract_delete_message(message),
                        extract_dir_response_message |-> extract_dir_response_message(message),
                        extract_move_message |-> extract_move_message(message),
                        extract_subfolder_message |-> extract_subfolder_message(message),
                        extract_stats_response_message |->
                            extract_stats_response_message(message)])
    /\ mpc' = "extracted"
    /\ UNCHANGED <<message, msg_built>>
    /\ UNCHANGED <<transferVars, pathVars, filesVars, usersVars, jsonVars, statsVars, focus, ensured>>

(***************************************************************************)
(* Server startup (io_loc.rs)                                              *)
(***************************************************************************)

\* the side-files of the host directory
user_database_path == "users.json"
file_owner_db_path == "files.json"
network_analyzer_path == "stats.json"

\* ensure_directories returned ret at this line of io_loc.rs
Return(ret, line) == [ret |-> ret, line |-> line]

\* fs::OpenOptions::new().create_new(true).truncate(false).open(path): no
\* access mode (read, write or append) is set, so open returns an
\* InvalidInput error and creates no file
create_new_open(path) == "InvalidInput"

\* ensure_directories: the results vector holds one entry per side-file that
\* does not exist
ensure_directories(users_doc, files_doc, stats_doc) ==
    LET results ==
          (IF users_doc = Missing THEN {create_new_open(user_database_path)} ELSE {}) \cup
          (IF files_doc = Missing THEN {create_new_open(file_owner_db_path)} ELSE {}) \cup
          (IF stats_doc = Missing THEN {create_new_open(network_analyzer_path)} ELSE {})
    IN  IF \E r \in results : r # "Ok" /\ r # "AlreadyExists"
          THEN Return(FALSE, 61)
          ELSE Return(TRUE, 64)

EnsureDirectories ==
    /\ ensured = None
    /\ \/ \* create_dir_all fails for the host or the root directory
          ensured' = Some(Return(FALSE, 38))
       \/ ensured' = Some(ensure_directories(users_disk[user_database_path],
                                             files_disk[file_owner_db_path],
                                             stats_disk[network_analyzer_path]))
    /\ UNCHANGED <<transferVars, pathVars, filesVars, usersVars, jsonVars, statsVars,
                   messageVars, focus>>

\* what a side-file holds when the server starts: nothing (absent), the
\* empty text, or an empty list
StartupDocuments == {Missing, EmptyText, JsonList(<<>>)}

StartupInit ==
    /\ file_path = None /\ data = <<>> /\ curr_id = 0
    /\ files_disk \in {[n \in FileNames |-> IF n = file_owner_db_path THEN d ELSE Missing] :
                         d \in StartupDocuments}
    /\ files_call = Call("new", "", 0) /\ files_ret = Ok(0) /\ issued = <<>>
    /\ users_path = None /\ users = <<>>
    /\ users_disk \in {[n \in UserFileNames |-> IF n = user_database_path THEN d ELSE Missing] :
                         d \in StartupDocuments}
    /\ users_open_doc = None
    /\ users_call = UserCall("new", "", "") /\ users_ret = RetOk
    /\ stats_path = None /\ stats = <<>>
    /\ stats_disk \in {[n \in StatsFileNames |-> IF n = network_analyzer_path THEN d ELSE Missing] :
                         d \in StartupDocuments}
    /\ mutex = [holder |-> None, poisoned |-> FALSE]
    /\ tpc = [t \in Threads |-> Thread("idle", StatsCall("new", "", 0, Zero, ""), StatOk)]
    /\ loaded = 0 /\ acks = 0
    /\ ensured = None

(***************************************************************************)
(* Specifications                                                          *)
(***************************************************************************)

TransferIdle ==
    /\ contents = <<>> /\ frames = <<>> /\ declared = 0 /\ stream = <<>>
    /\ peer = "idle" /\ sink = "binary" /\ frame_count = 0 /\ frame_size = U32Zero
    /\ windows_so_far = 0 /\ result = <<>> /\ reads = 0 /\ rpc = "idle"

PathIdle ==
    /\ link_target = <<"a">> /\ raw_path = RawString(FALSE, <<>>)
    /\ curr_dir = root_directory /\ joined = None /\ resolved = None
    /\ accepted = FALSE /\ probe = <<>> /\ probe_valid = FALSE /\ relative = None
    /\ ppc = "idle"

FilesIdle ==
    /\ file_path = None /\ data = <<>> /\ curr_id = 0
    /\ files_disk = [n \in FileNames |-> Missing]
    /\ files_call = Call("new", "", 0) /\ files_ret = Ok(0) /\ issued = <<>>

UsersIdle ==
    /\ users_path = None /\ users = <<>>
    /\ users_disk = [n \in UserFileNames |-> Missing]
    /\ users_open_doc = None
    /\ users_call = UserCall("new", "", "") /\ users_ret = RetOk

JsonIdle ==
    /\ json_path = None
    /\ json_disk = [n \in JsonFileNames |-> Missing]
    /\ json_call = JsonCall("new", "") /\ json_ret = JsonOk(EmptyText)

StatsIdle ==
    /\ stats_path = None /\ stats = <<>>
    /\ stats_disk = [n \in StatsFileNames |-> Missing]
    /\ mutex = [holder |-> None, poisoned |-> FALSE]
    /\ tpc = [t \in Threads |-> Thread("idle", StatsCall("new", "", 0, Zero, ""), StatOk)]
    /\ loaded = 0 /\ acks = 0

TransferNext ==
    \/ SendFrames
    \/ PeerClose
    \/ \E fc \in (ReceiveCounts \cup (IF peer = "idle" THEN {} ELSE {declared})) : ReceiveStart(fc)
    \/ ReceiveRead
    \/ ReceiveReadErr

InitTransfer ==
    /\ TransferInit /\ PathIdle /\ FilesIdle /\ UsersIdle
    /\ JsonIdle /\ StatsIdle /\ MessageIdle /\ focus = "transfer" /\ ensured = None

SpecTransfer == InitTransfer /\ [][TransferNext]_vars

ClientRequest ==
    /\ ppc = "idle"
    /\ \E raw \in RawStrings \cup NotableStrings : \E dir \in CurrDirs : Request(raw, dir)

Probe ==
    /\ ppc = "idle"
    /\ \E path \in SeqsUpTo(Comps, MaxComps) : ProbeIsPathValid(path)

ProbeRelative ==
    /\ ppc = "idle"
    /\ \E path \in SeqsUpTo(Comps, MaxComps) : ProbeMakeRelative(path)

PathNext ==
    \/ ClientRequest
    \/ MoveRelative
    \/ ResolvePath
    \/ IsPathValid
    \/ Probe
    \/ ProbeRelative

InitPath ==
    /\ TransferIdle /\ PathInit /\ FilesIdle /\ UsersIdle
    /\ JsonIdle /\ StatsIdle /\ MessageIdle /\ focus = "path sandbox" /\ ensured = None

SpecPath == InitPath /\ [][PathNext]_vars

FilesNext ==
    \/ \E name \in FileNames : FilesOpen(name)
    \/ FilesSave
    \/ FilesClose
    \/ \E path \in RegPaths : \E owner \in {None, Some(alice)} : RegisterFile(path, owner, "text")
    \/ \E id \in 1..MaxId : SetFileOwner(id, bob)
    \/ RemoveHighestRecord

InitFiles ==
    /\ TransferIdle /\ PathIdle /\ FilesInit /\ UsersIdle
    /\ JsonIdle /\ StatsIdle /\ MessageIdle /\ focus = "file registry" /\ ensured = None

SpecFiles == InitFiles /\ [][FilesNext]_vars

\* the registry with its lookups
LookupNext ==
    \/ FilesNext
    \/ \E id \in 1..MaxId : GetFile(id)
    \/ \E path \in RegPaths : GetFileId(path)

InitLookup == InitFiles

SpecLookup == InitLookup /\ [][LookupNext]_vars

UsersNext ==
    \/ \E name \in UserFileNames : UsersOpen(name)
    \/ UsersSave
    \/ \E name \in UserNames : GetUser(name)
    \/ \E name \in UserNames : GetUserMut(name)
    \/ \E name \in UserNames : \E password \in Passwords : ValidateUser(name, password)

InitUsers ==
    /\ TransferIdle /\ PathIdle /\ FilesIdle /\ UsersInit
    /\ JsonIdle /\ StatsIdle /\ MessageIdle /\ focus = "user directory" /\ ensured = None

SpecUsers == InitUsers /\ [][UsersNext]_vars

\* the calls one thread makes on the NetworkAnalyzer
CallOpen(t) == \E name \in StatsFileNames : Lock(t, OpenCall(name))
CallSave(t) == Lock(t, SaveCall)
CallRecordTransfer(t, sizes, durations) ==
    /\ acks < MaxStats
    /\ \E file_size \in sizes : \E duration \in durations : \E ip \in Ips :
         Lock(t, RecordCall(file_size, duration, ip))
CallGetLastStatByIp(t) == \E ip \in Ips : Lock(t, LastCall(ip))

\* one caller
StatsNext ==
    \/ CallOpen("t1")
    \/ CallSave("t1")
    \/ CallRecordTransfer("t1", Sizes, Durations)
    \/ CallGetLastStatByIp("t1")
    \/ AnalyzerOpen("t1")
    \/ AnalyzerSave("t1")
    \/ RecordTransfer("t1")
    \/ GetLastStatByIp("t1")
    \/ Unlock("t1")

InitStats ==
    /\ TransferIdle /\ PathIdle /\ FilesIdle /\ UsersIdle /\ JsonIdle /\ StatsInit
    /\ MessageIdle /\ focus = "telemetry" /\ ensured = None

SpecStats == InitStats /\ [][StatsNext]_vars

\* several threads sharing the NetworkAnalyzer
AnalyzerNext ==
    \E t \in Threads :
        \/ CallOpen(t)
        \/ CallSave(t)
        \/ CallRecordTransfer(t, {10000000}, {Zero, Frac(2, 1)})
        \/ CallGetLastStatByIp(t)
        \/ AnalyzerOpen(t)
        \/ AnalyzerSave(t)
        \/ RecordTransfer(t)
        \/ GetLastStatByIp(t)
        \/ Unlock(t)

InitAnalyzer == InitStats

SpecAnalyzer == InitAnalyzer /\ [][AnalyzerNext]_vars

MessagesNext ==
    \/ ConnectMessage
    \/ AckMessage
    \/ CloseMessage
    \/ UploadMessage
    \/ DownloadMessageRequest
    \/ DownloadMessageResponse
    \/ DeleteMessage
    \/ DirMessageRequest
    \/ DirMessageResponse
    \/ MoveMessage
    \/ SubfolderMessage
    \/ StatsRequestMessage
    \/ StatsResponseMessage
    \/ Receive
    \/ Extract

InitMessages ==
    /\ TransferIdle /\ PathIdle /\ FilesIdle /\ UsersIdle /\ JsonIdle /\ StatsIdle
    /\ MessageInit /\ focus = "messages" /\ ensured = None

SpecMessages == InitMessages /\ [][MessagesNext]_vars

JsonNext ==
    \/ \E name \in JsonFileNames : JsonOpen(name)
    \/ \E text \in JsonDocuments : JsonSave(text)
    \/ JsonClose

\* one of the four persisted stores, chosen at the start, is exercised
InitStores ==
    /\ TransferIdle /\ PathIdle /\ MessageIdle /\ ensured = None
    /\ \/ focus = "record store" /\ JsonInit /\ FilesIdle /\ UsersIdle /\ StatsIdle
       \/ focus = "file registry" /\ JsonIdle /\ FilesInit /\ UsersIdle /\ StatsIdle
       \/ focus = "user directory" /\ JsonIdle /\ FilesIdle /\ UsersInit /\ StatsIdle
       \/ focus = "telemetry" /\ JsonIdle /\ FilesIdle /\ UsersIdle /\ StatsInit

StoresNext ==
    \/ focus = "record store" /\ JsonNext
    \/ focus = "file registry" /\ FilesNext
    \/ focus = "user directory" /\ UsersNext
    \/ focus = "telemetry" /\ StatsNext

SpecStores == InitStores /\ [][StoresNext]_vars

\* startup: ensure_directories, then each store is opened once on its
\* side-file
StartupNext ==
    \/ EnsureDirectories
    \/ ensured # None /\ files_call.op = "new" /\ FilesOpen(file_owner_db_path)
    \/ ensured # None /\ users_call.op = "new" /\ UsersOpen(user_database_path)
    \/ ensured # None /\ tpc["t1"].call.op = "new" /\ Lock("t1", OpenCall(network_analyzer_path))
    \/ AnalyzerOpen("t1")
    \/ Unlock("t1")

InitStartup ==
    /\ TransferIdle /\ PathIdle /\ JsonIdle /\ MessageIdle /\ StartupInit
    /\ focus = "startup"

SpecStartup == InitStartup /\ [][StartupNext]_vars

(***************************************************************************)
(* Claims                                                                  *)
(***************************************************************************)

IsPrefixOf(p, q) == Len(p) <= Len(q) /\ \A i \in 1..Len(p) : p[i] = q[i]

\* C1: when the sender has written the frames of split_binary_for_network(B)
\* in order and the receiver runs with the declared frame count, the
\* receiver never delivers anything but bytes of B in order, and once it has
\* consumed all the sender wrote it has returned success with exactly B.
C1_RoundTrip ==
    (peer # "idle" /\ rpc \in {"loop", "true", "panic"} /\ frame_count = declared) =>
        /\ IsPrefixOf(result, contents)
        /\ (reads > 0 /\ stream = <<>>) => (rpc = "true" /\ result = contents)

\* the root's component sequence is a prefix of p
HasRootPrefix(p) ==
    /\ Len(p) >= Len(root_directory)
    /\ \A i \in 1..Len(root_directory) : p[i] = root_directory[i]

\* C2: a request the pipeline accepts has a canonical path with the root's
\* components as its prefix; a request whose canonical path lies outside the
\* root (reached through ".." or through the symlink), or which has none, is
\* rejected; so is "../../etc/passwd" from these current directories.
C2_SandboxContainment ==
    ppc = "done" =>
        /\ accepted => (joined # None /\ resolved # None /\ HasRootPrefix(resolved[1]))
        /\ (resolved = None \/ ~HasRootPrefix(resolved[1])) => ~accepted
        /\ raw_path \in NotableStrings => ~accepted

\* a request through the symlink that resolves to a file outside the root is
\* rejected by is_path_valid
C2_Witness ==
    /\ ppc = "done"
    /\ raw_path = RawString(FALSE, <<"l1", "passwd">>)
    /\ resolved = Some(<<"/", "etc", "passwd">>)
    /\ ~accepted

\* C3: move_relative has no result for a string beginning with "/"; for any
\* other string the result is curr_dir followed by the string's named
\* segments, ".." included and unresolved, whatever the filesystem holds.
C3_MoveRelative ==
    ppc \in {"moved", "resolved", "done"} =>
        IF raw_path.lead THEN joined = None
        ELSE joined = Some(curr_dir \o
                           SelectSeq(raw_path.segs, LAMBDA c : c # "" /\ c # "."))

\* move_relative("..", root) is <root>/..
C3_Witness ==
    /\ ppc = "moved"
    /\ raw_path = RawString(FALSE, <<"..">>)
    /\ joined = Some(<<"/", "home", "cnt", "data", "..">>)

\* C4: is_path_valid(p) is true exactly when p has at least as many
\* components as the root and its first components are the root's.
C4_IsPathValid ==
    ppc = "probed" => (probe_valid <=> HasRootPrefix(probe))

\* a path that diverges from the root in its last leading component
C4_Witness ==
    /\ ppc = "probed"
    /\ probe = <<"/", "home", "cnt", "cnt", "data">>
    /\ ~probe_valid


\* C5: the ids returned by successful register_file calls on one registry
\* are strictly increasing, so none is handed out twice.
C5_IdsNeverReused ==
    \A i \in DOMAIN issued : \A j \in DOMAIN issued : i < j => issued[i] < issued[j]

\* C6: register_file on a path some record already has returns the error that
\* names the owner of the first such record ("any" when it has none) and
\* leaves the record list as it was.
C6_DuplicateRejected ==
    [][ LET path == files_call'.path
            holders == {i \in DOMAIN data : data[i].path = path}
            first == CHOOSE i \in holders : \A j \in holders : i <= j
            name == IF data[first].owner = None THEN "any"
                    ELSE data[first].owner[1].username
        IN  (files_call'.op = "register_file" /\ holders # {}) =>
               /\ data' = data
               /\ files_ret' = Err(<<"path previously contained by owner", name>>) ]_vars

\* a second registration of an unowned path has been turned down
C6_Witness ==
    /\ files_call = Call("register_file", "p2", 0)
    /\ files_ret = Err(<<"path previously contained by owner", "any">>)
    /\ Len(data) = 2

\* C7: no two records of the registry share a path.
C7_UniquePaths ==
    \A i \in DOMAIN data : \A j \in DOMAIN data : i # j => data[i].path # data[j].path

HasDuplicate(list) == \E i \in DOMAIN list : \E j \in DOMAIN list : i # j /\ list[i] = list[j]
HasEmptyField(list) == \E i \in DOMAIN list : list[i].username = "" \/ list[i].password = ""
Listed(list, username) == \E i \in DOMAIN list : list[i].username = username
FirstNamed(list, username) ==
    list[CHOOSE i \in DOMAIN list :
            /\ list[i].username = username
            /\ \A j \in 1..(i - 1) : list[j].username # username]

\* the documents open accepts: the empty text, and lists of pairwise distinct
\* credentials without an empty field
GoodDocument(doc) ==
    \/ doc = EmptyText
    \/ doc.kind = "json" /\ ~HasDuplicate(doc.list) /\ ~HasEmptyField(doc.list)

\* C8: open on a document with two identical records or an empty field
\* fails, leaves the database unopened, keeps none of the document's records
\* in memory, and get_user returns nothing for every name.
C8_FailedOpenLoadsNothing ==
    (/\ users_call.op = "open"
     /\ users_open_doc[1].kind = "json"
     /\ HasDuplicate(users_open_doc[1].list) \/ HasEmptyField(users_open_doc[1].list)) =>
        /\ users_ret.kind = "Err"
        /\ users_path = None
        /\ \A i \in DOMAIN users : \A j \in DOMAIN users_open_doc[1].list :
               users[i] # users_open_doc[1].list[j]
        /\ \A n \in UserNames : get_user(users_path, users, n) = None

\* C9: open on the empty document or on a list of pairwise distinct
\* credentials without an empty field succeeds and leaves the database
\* opened, and get_user then returns the record of every listed username.
C9_OpenSucceeds ==
    (users_call.op = "open" /\ GoodDocument(users_open_doc[1])) =>
        /\ users_ret = RetOk
        /\ users_path # None
        /\ \A i \in DOMAIN users_open_doc[1].list :
               LET n == users_open_doc[1].list[i].username
               IN  get_user(users_path, users, n) = Some(FirstNamed(users_open_doc[1].list, n))

\* C10: once open has been called on a good document holding alice with
\* password "right", validate_user("alice", "right") is Some(true),
\* validate_user("alice", other) is Some(false) and validate_user of a name the
\* document does not list is None; before any open it is None for every input.
C10_ValidateUser ==
    users_call.op = "validate_user" =>
        IF users_open_doc = None THEN users_ret = RetNone
        ELSE (/\ GoodDocument(users_open_doc[1])
              /\ Listed(users_open_doc[1].list, "alice")
              /\ FirstNamed(users_open_doc[1].list, "alice") = alice) =>
                 /\ (users_call.name = "alice" /\ users_call.password = "right")
                       => users_ret = RetSomeBool(TRUE)
                 /\ (users_call.name = "alice" /\ users_call.password # "right")
                       => users_ret = RetSomeBool(FALSE)
                 /\ ~Listed(users_open_doc[1].list, users_call.name)
                       => users_ret = RetNone

\* a step in which thread t runs record_transfer on the data
RecordStep(t) ==
    /\ tpc[t].pc = "locked"
    /\ tpc[t].call.op = "record_transfer"
    /\ tpc'[t].pc = "returning"

\* the call is rejected and the list is left as it was
Rejected(t) == tpc'[t].ret.kind = "Err" /\ stats' = stats

\* the call succeeds and one record with the call's size, duration and ip is
\* added behind the records held before
Appended(t) ==
    /\ tpc'[t].ret = StatOk
    /\ Len(stats') = Len(stats) + 1
    /\ SubSeq(stats', 1, Len(stats)) = stats
    /\ stats'[Len(stats')].file_size = tpc[t].call.file_size
    /\ stats'[Len(stats')].transfer_time = tpc[t].call.duration
    /\ stats'[Len(stats')].ip = tpc[t].call.ip

\* duration <= 0, which no NaN satisfies
DurationLeZero(d) == d # NaN /\ d[1] <= 0

\* duration > 0, which no NaN satisfies
DurationPositive(d) == d # NaN /\ d[1] > 0

\* C11: record_transfer is rejected and appends nothing when the store is
\* unopened or duration <= 0; in every other case it succeeds and appends
\* exactly one record with the given size, duration and ip at the end,
\* leaving the earlier records unchanged.
C11_RecordTransfer ==
    [][\A t \in Threads : RecordStep(t) =>
          IF ~is_open(stats_path) \/ DurationLeZero(tpc[t].call.duration)
            THEN Rejected(t)
            ELSE Appended(t)]_vars

\* C11 as it holds: record_transfer is rejected and appends nothing when the
\* store is unopened or duration is not greater than 0 (zero, negative or
\* NaN); in every other case it succeeds and appends exactly one record with
\* the given size, duration and ip at the end, leaving the earlier records
\* unchanged.
C11_RecordTransferAmended ==
    [][\A t \in Threads : RecordStep(t) =>
          IF ~is_open(stats_path) \/ ~DurationPositive(tpc[t].call.duration)
            THEN Rejected(t)
            ELSE Appended(t)]_vars

\* on an opened store a record_transfer with a NaN duration has been rejected
C11_Witness ==
    \E t \in Threads :
        /\ tpc[t].pc = "returning"
        /\ tpc[t].call.op = "record_transfer"
        /\ tpc[t].call.duration = NaN
        /\ is_open(stats_path)
        /\ tpc[t].ret.kind = "Err"

\* a record_transfer call has just succeeded; its record is the last one
Accepted(t) ==
    /\ tpc[t].pc = "returning"
    /\ tpc[t].call.op = "record_transfer"
    /\ tpc[t].ret = StatOk
    /\ stats # <<>>

\* C12: the record of an accepted record_transfer(size, duration, ip) has
\* data_rate = (size / duration) / 1000000 and latency = 1 / duration, as
\* exact fractions; size 10000000 with duration 2 gives data_rate 5 and
\* latency 1/2.
C12_RateAndLatency ==
    \A t \in Threads : Accepted(t) =>
        LET r == stats[Len(stats)]
            size == tpc[t].call.file_size
            d == tpc[t].call.duration
        IN  /\ r.data_rate[2] > 0 /\ r.latency[2] > 0
            /\ Frac(r.data_rate[1] * d[1], r.data_rate[2] * d[2]) = Frac(size, 1000000)
            /\ Frac(r.latency[1] * d[1], r.latency[2] * d[2]) = Frac(1, 1)
            /\ (size = 10000000 /\ d = <<2, 1>>) =>
                   (r.data_rate = <<5, 1>> /\ r.latency = <<1, 2>>)

\* record_transfer(10000000, 2.0, ip) has just been accepted
C12_Witness ==
    \E t \in Threads :
        /\ Accepted(t)
        /\ tpc[t].call.file_size = 10000000
        /\ tpc[t].call.duration = <<2, 1>>

\* the places in the list of the records with the ip
PlacesOf(list, ip) == {i \in DOMAIN list : list[i].ip = ip}

\* what get_last_stat_by_ip(ip) is to return in the current state
LastAppended(ip) ==
    IF stats_path = None \/ PlacesOf(stats, ip) = {} THEN StatNone
    ELSE StatSome(stats[CHOOSE i \in PlacesOf(stats, ip) :
                          \A j \in PlacesOf(stats, ip) : j <= i])

\* C13: get_last_stat_by_ip(ip) returns the record with that ip that was
\* appended last, whatever records of other ips lie around it, and nothing
\* when the store is closed or no stored record has the ip.
C13_LastStatByIp ==
    \A t \in Threads :
        (tpc[t].pc = "returning" /\ tpc[t].call.op = "get_last_stat_by_ip") =>
            tpc[t].ret = LastAppended(tpc[t].call.ip)

\* the record returned is not the last of the list: a record of another ip
\* was appended after it
C13_Witness ==
    \E t \in Threads :
        /\ tpc[t].pc = "returning"
        /\ tpc[t].call.op = "get_last_stat_by_ip"
        /\ tpc[t].ret.kind = "Some"
        /\ Len(stats) >= 2
        /\ stats[Len(stats)].ip # tpc[t].call.ip
        /\ \E i \in 1..(Len(stats) - 1) :
             stats[i].ip = tpc[t].call.ip /\ i > 1 /\ stats[1].ip = tpc[t].call.ip

\* the threads inside a call on the data
Inside == {t \in Threads : tpc[t].pc \in {"locked", "returning"}}

\* the accepted record_transfer calls that have not yet returned
Pending == {t \in Threads : Accepted(t)}

\* C14: each operation runs entirely under the exclusive lock: at most one
\* thread is inside a call and it holds the mutex; every accepted
\* record_transfer has added exactly one record (the list holds the loaded
\* records and one record per accepted call); the result a
\* get_last_stat_by_ip call returns is the one the list gives when it
\* returns.
C14_Serialized ==
    /\ Cardinality(Inside) <= 1
    /\ \A t \in Inside : mutex.holder = Some(t)
    /\ Inside = {} => mutex.holder = None
    /\ Len(stats) = loaded + acks + Cardinality(Pending)
    /\ \A t \in Threads :
         (tpc[t].pc = "returning" /\ tpc[t].call.op = "get_last_stat_by_ip") =>
             tpc[t].ret = LastAppended(tpc[t].call.ip)

\* both threads have had a record_transfer accepted, and a
\* get_last_stat_by_ip of one thread is returning a record under the lock
\* while the other thread is outside every call
C14_Witness ==
    /\ acks = 2
    /\ \A t \in Threads : tpc[t].call.op \in {"record_transfer", "get_last_stat_by_ip"}
    /\ \E t \in Threads : \E u \in Threads :
         /\ t # u
         /\ tpc[t].pc = "returning" /\ tpc[t].call.op = "get_last_stat_by_ip"
         /\ tpc[t].ret.kind = "Some"
         /\ tpc[u].pc = "idle" /\ tpc[u].call.op = "record_transfer" /\ tpc[u].ret = StatOk

Extractors ==
    {"extract_connect_message", "extract_ack_message", "extract_upload_message",
     "extract_download_request_message", "extract_download_response_message",
     "extract_delete_message", "extract_dir_response_message", "extract_move_message",
     "extract_subfolder_message", "extract_stats_response_message"}

\* the message type each extractor is for
TypeFor(e) ==
    CASE e = "extract_connect_message" -> "MessageType::Connect"
      [] e = "extract_ack_message" -> "MessageType::Ack"
      [] e = "extract_upload_message" -> "MessageType::Upload"
      [] e = "extract_download_request_message" -> "MessageType::Download"
      [] e = "extract_download_response_message" -> "MessageType::Download"
      [] e = "extract_delete_message" -> "MessageType::Delete"
      [] e = "extract_dir_response_message" -> "MessageType::Dir"
      [] e = "extract_move_message" -> "MessageType::Move"
      [] e = "extract_subfolder_message" -> "MessageType::Subfolder"
      [] e = "extract_stats_response_message" -> "MessageType::Stats"

\* the fields each extractor needs, with the shape each is to have
Required(e) ==
    CASE e = "extract_connect_message" ->
            <<<<"username", "string">>, <<"password", "string">>>>
      [] e = "extract_ack_message" ->
            <<<<"code", "HttpCodes">>, <<"message", "string">>>>
      [] e = "extract_upload_message" ->
            <<<<"name", "string">>, <<"type", "FileType">>, <<"size", "u32">>>>
      [] e = "extract_download_request_message" -> <<<<"path", "string">>>>
      [] e = "extract_download_response_message" ->
            <<<<"status", "HttpCodes">>, <<"message", "string">>, <<"kind", "FileType">>,
              <<"size", "u32">>>>
      [] e = "extract_delete_message" -> <<<<"path", "string">>>>
      [] e = "extract_dir_response_message" ->
            <<<<"status", "HttpCodes">>, <<"message", "string">>, <<"curr_dir", "string">>,
              <<"size", "u32">>>>
      [] e = "extract_move_message" -> <<<<"path", "string">>>>
      [] e = "extract_subfolder_message" ->
            <<<<"path", "string">>, <<"action", "SubfolderAction">>>>
      [] e = "extract_stats_response_message" -> <<<<"stats", "TransferStats">>>>

IsNumber(v) == v.t \in {"int", "float"}

\* the value has the shape
Decodes(shape, v) ==
    CASE shape = "string" -> v.t = "string"
      [] shape = "u32" -> v.t = "int" /\ v.n >= 0
      [] shape = "HttpCodes" ->
            v.t = "string" /\ v.s \in {"Ok", "Unauthorized", "Forbidden", "NotFound",
                                       "Conflict", "ImNotATeapot"}
      [] shape = "FileType" ->
            v.t = "string" /\ v.s \in {"Text", "Audio", "Video", "Binary", "Archive"}
      [] shape = "SubfolderAction" -> v.t = "string" /\ v.s \in {"Add", "Delete"}
      [] shape = "TransferStats" ->
            /\ v.t = "object"
            /\ {"file_size", "transfer_time", "data_rate", "latency", "ip"} \subseteq DOMAIN v.o
            /\ v.o["file_size"].t = "int" /\ v.o["file_size"].n >= 0
            /\ IsNumber(v.o["transfer_time"]) /\ IsNumber(v.o["data_rate"])
            /\ IsNumber(v.o["latency"])
            /\ v.o["ip"].t = "string"

\* every field the extractor needs is in the message with its shape
AllDecode(e, msg) ==
    \A i \in DOMAIN Required(e) :
        /\ Required(e)[i][1] \in DOMAIN msg.data
        /\ Decodes(Required(e)[i][2], msg.data[Required(e)[i][1]])

\* C15: every extract_* function returns nothing for a message of another
\* type, whatever fields the message holds; for a message of its type it
\* returns a result exactly when every field it needs is present and has
\* its shape, and the result then has all its components.
C15_TypeCheckedAllOrNothing ==
    mpc = "extracted" =>
        \A e \in Extractors :
            /\ message.message_type # TypeFor(e) => msg_out[1][e] = None
            /\ msg_out[1][e] # None <=>
                   (message.message_type = TypeFor(e) /\ AllDecode(e, message))
            /\ (msg_out[1][e] # None /\ Len(Required(e)) > 1) =>
                   Len(msg_out[1][e][1]) = Len(Required(e))

\* a Download message holding the three fields of an Upload, each with its
\* shape, from which extract_upload_message returned nothing
C15_Witness ==
    /\ mpc = "extracted"
    /\ message.message_type = "MessageType::Download"
    /\ AllDecode("extract_upload_message", message)
    /\ msg_out[1]["extract_upload_message"] = None

\* the schema table: the field names of each (type, direction)
SchemaFields(message_type, direction) ==
    CASE message_type = "MessageType::Connect" -> {"username", "password"}
      [] message_type = "MessageType::Close" -> {}
      [] message_type = "MessageType::Ack" -> {"code", "message"}
      [] message_type = "MessageType::Upload" -> {"name", "type", "size"}
      [] message_type = "MessageType::Download" ->
            IF direction = "MessageDirection::Request" THEN {"path"}
            ELSE {"status", "message", "kind", "size"}
      [] message_type = "MessageType::Delete" -> {"path"}
      [] message_type = "MessageType::Dir" ->
            IF direction = "MessageDirection::Request" THEN {}
            ELSE {"status", "message", "curr_dir", "size"}
      [] message_type = "MessageType::Move" -> {"path"}
      [] message_type = "MessageType::Subfolder" -> {"path", "action"}
      [] message_type = "MessageType::Stats" ->
            IF direction = "MessageDirection::Request" THEN {} ELSE {"stats"}

\* a constructed message has gone through the extractors
Inverted == mpc = "extracted" /\ msg_built # None

\* the constructors whose extractor returns the tuple of all arguments, and
\* those whose extractor returns the single argument
ReturnsTuple(ctor) ==
    ctor \in {"connect_message", "upload_message", "download_message_response",
              "dir_message_response", "subfolder_message"}
ReturnsValue(ctor) ==
    ctor \in {"download_message_request", "delete_message", "move_message",
              "stats_response_message"}

ExtractorOf(ctor) ==
    CASE ctor = "connect_message" -> "extract_connect_message"
      [] ctor = "ack_messsage" -> "extract_ack_message"
      [] ctor = "upload_message" -> "extract_upload_message"
      [] ctor = "download_message_request" -> "extract_download_request_message"
      [] ctor = "download_message_response" -> "extract_download_response_message"
      [] ctor = "delete_message" -> "extract_delete_message"
      [] ctor = "dir_message_response" -> "extract_dir_response_message"
      [] ctor = "move_message" -> "extract_move_message"
      [] ctor = "subfolder_message" -> "extract_subfolder_message"
      [] ctor = "stats_response_message" -> "extract_stats_response_message"

\* C16: for every constructor with an extractor and every argument tuple,
\* the extractor applied to the constructed message returns exactly the
\* arguments passed (for ack: the code and the message passed), and every
\* constructed message has exactly the field names of the schema table for
\* its type and direction.
C16_ExtractInvertsConstruct ==
    Inverted =>
        LET ctor == msg_built[1].ctor
            args == msg_built[1].args
        IN  /\ DOMAIN message.data = SchemaFields(message.message_type, message.direction)
            /\ ReturnsTuple(ctor) => msg_out[1][ExtractorOf(ctor)] = Some(args)
            /\ ReturnsValue(ctor) => msg_out[1][ExtractorOf(ctor)] = Some(args[1])
            /\ ctor = "ack_messsage" =>
                   /\ args[3] # None
                   /\ msg_out[1][ExtractorOf(ctor)] = Some(<<args[2], args[3][1]>>)

\* no f32 field of the record is a NaN or an infinity
FiniteStats(st) == st.transfer_time[2] # 0 /\ st.data_rate[2] # 0 /\ st.latency[2] # 0

\* C16 as it holds: the extractor applied to the constructed message returns
\* exactly the arguments passed, except that (a) for ack the direction is
\* not returned and, when no message text is passed, the text returned is
\* the code's display text, and (b) for a stats response holding a NaN or an
\* infinite f32 field the extractor returns nothing; every constructed
\* message has exactly the field names of the schema table for its type and
\* direction.
C16_ExtractInvertsConstructAmended ==
    Inverted =>
        LET ctor == msg_built[1].ctor
            args == msg_built[1].args
        IN  /\ DOMAIN message.data = SchemaFields(message.message_type, message.direction)
            /\ ReturnsTuple(ctor) => msg_out[1][ExtractorOf(ctor)] = Some(args)
            /\ (ReturnsValue(ctor) /\ ctor # "stats_response_message") =>
                   msg_out[1][ExtractorOf(ctor)] = Some(args[1])
            /\ ctor = "stats_response_message" =>
                   msg_out[1][ExtractorOf(ctor)] =
                       (IF FiniteStats(args[1]) THEN Some(args[1]) ELSE None)
            /\ ctor = "ack_messsage" =>
                   msg_out[1][ExtractorOf(ctor)] =
                       Some(<<args[2], IF args[3] # None THEN args[3][1]
                                       ELSE HttpCodesDisplay(args[2])>>)

\* ack_messsage(direction, NotFound, None) went through extract_ack_message,
\* which returned the code with the text "Not Found"
C16_Witness ==
    /\ Inverted
    /\ msg_built[1].ctor = "ack_messsage"
    /\ msg_built[1].args[3] = None
    /\ msg_out[1]["extract_ack_message"] = Some(<<404, "Not Found">>)

\* a step in which thread t runs open, or save, on the telemetry data
AnalyzerOpenStep(t) ==
    tpc[t].pc = "locked" /\ tpc[t].call.op = "open" /\ tpc'[t].pc # "locked"
AnalyzerSaveStep(t) ==
    tpc[t].pc = "locked" /\ tpc[t].call.op = "save" /\ tpc'[t].pc # "locked"

\* C17: open(path) on a closed JsonFile when no file exists at path creates
\* an empty file at path, returns the empty text as a success value and
\* leaves the store open at path; it never aborts the caller.
C17_CreateOnOpen ==
    [][(/\ json_call'.op = "open"
        /\ ~is_open(json_path)
        /\ json_disk[json_call'.name] = Missing) =>
           /\ json_ret' = JsonOk(EmptyText)
           /\ json_path' = Some(json_call'.name)
           /\ json_disk'[json_call'.name] = EmptyText]_vars

\* C18: for the record store, the file registry, the telemetry store and the
\* user directory, an open call made after an earlier open succeeded and
\* before any close returns an error naming the open path and leaves the
\* recorded path and the in-memory records as they were.  The user directory
\* has no close; its earlier open succeeded when it was given a document
\* open accepts.
C18_ReopenRefused ==
    [][/\ (json_call'.op = "open" /\ is_open(json_path)) =>
             /\ json_ret' = JsonErr(<<"file already opened, at path", json_path[1]>>)
             /\ UNCHANGED <<json_path, json_disk>>
       /\ (files_call'.op = "open" /\ is_open(file_path)) =>
             /\ files_ret' = Err(<<"file already opened, at path", file_path[1]>>)
             /\ UNCHANGED <<file_path, data, files_disk>>
       /\ \A t \in Threads : (AnalyzerOpenStep(t) /\ is_open(stats_path)) =>
             /\ tpc'[t].ret = StatErr(<<"file already opened, at path", stats_path[1]>>)
             /\ UNCHANGED <<stats_path, stats, stats_disk>>
       /\ (/\ users_call'.op = "open"
           /\ users_call.op = "open"
           /\ GoodDocument(users_open_doc[1])) =>
             /\ users_ret' = RetErr(<<"already open at path", users_call.name>>)
             /\ UNCHANGED <<users_path, users, users_disk>>]_vars

\* C19: an open that returns an error on a store that was not open (the file
\* could not be read or created, or its text is no record list) leaves the
\* store unopened: is_open is false afterwards.
C19_FailedOpenLeavesClosed ==
    [][/\ (json_call'.op = "open" /\ ~is_open(json_path) /\ json_ret'.kind = "Err") =>
             ~is_open(json_path')
       /\ (/\ files_call'.op = "open" /\ ~is_open(file_path)
           /\ ~files_ret'.ok /\ files_ret' # Panicked) =>
             ~is_open(file_path')
       /\ \A t \in Threads :
             (AnalyzerOpenStep(t) /\ ~is_open(stats_path) /\ tpc'[t].ret.kind = "Err"
                /\ tpc'[t].pc = "returning") =>
                 ~is_open(stats_path')
       /\ (users_call'.op = "open" /\ ~is_open(users_path) /\ users_ret'.kind = "Err") =>
             ~is_open(users_path')]_vars

\* C20: save on an unopened store returns success, writes no file and changes
\* no state, for the record store, the file registry, the telemetry store
\* and the user directory.
C20_SaveUnopenedNoOp ==
    [][/\ (json_call'.op = "save" /\ ~is_open(json_path)) =>
             /\ json_ret' = JsonOk(EmptyText)
             /\ UNCHANGED <<json_path, json_disk>>
       /\ (files_call'.op = "save" /\ ~is_open(file_path)) =>
             /\ files_ret' = Ok(0)
             /\ UNCHANGED <<file_path, data, curr_id, files_disk>>
       /\ \A t \in Threads : (AnalyzerSaveStep(t) /\ ~is_open(stats_path)) =>
             /\ tpc'[t].ret = StatOk
             /\ UNCHANGED <<stats_path, stats, stats_disk>>
       /\ (users_call'.op = "save" /\ ~is_open(users_path)) =>
             /\ users_ret' = RetOk
             /\ UNCHANGED <<users_path, users, users_disk>>]_vars

\* C21: receive_network_binary and receive_network_file called with
\* frame_count = 0 return failure without any read on the stream and without
\* delivering a byte to the destination.
C21_ZeroFrameCount ==
    (rpc # "idle" /\ frame_count = 0) => (rpc = "false" /\ reads = 0 /\ result = <<>>)

\* the file receiver was called with frame_count = 0 while the sender's bytes
\* were waiting on the stream
C21_Witness ==
    /\ rpc = "false" /\ frame_count = 0 /\ sink = "file"
    /\ peer = "sent" /\ stream # <<>> /\ stream = contents

\* C22: when a read on the stream or a write to the destination fails during
\* receive_network_file, the call returns failure on that iteration, no
\* further read or write follows, and the bytes earlier iterations wrote to
\* the destination are still there.
C22_AbortWithoutRollback ==
    [][sink = "file" =>
         /\ (rpc = "loop" /\ rpc' = "false") => (result' = result /\ reads' = reads + 1)
         /\ rpc = "false" => (rpc' = "false" /\ result' = result /\ reads' = reads)]_vars

\* the second iteration failed after the first had written its buffer
C22_Witness ==
    /\ rpc = "false" /\ sink = "file" /\ reads = 2
    /\ Len(result) = SizeOfU32 * BUFF_SIZE

\* C23: split_binary_for_network(B) yields frames of exactly 4096 bytes each,
\* except the last, which has 1 to 4096 bytes; the declared frame count is
\* the number of 4096-byte frames that hold B.
C23_FixedSizeFrames ==
    peer # "idle" =>
        /\ \A k \in 1..(Len(frames) - 1) : Len(frames[k]) = BUFF_SIZE
        /\ Len(frames) >= 1
        /\ Len(frames[Len(frames)]) \in 1..BUFF_SIZE
        /\ declared = (Len(contents) + BUFF_SIZE - 1) \div BUFF_SIZE

\* what a call returns on a newly constructed FileDatabase (no path, no
\* record, counter 0) with these documents on disk
FreshReturn(call, disk) ==
    CASE call.op = "open" ->
           (IF disk[call.path] = Missing THEN Panicked
            ELSE IF from_str_ok(disk[call.path]) THEN Ok(0)
            ELSE Err(<<"parse error">>))
      [] call.op = "register_file" ->
           (IF call.path \in OnDisk THEN Ok(1) ELSE Err(<<"path provided does not exist">>))
      [] call.op = "set_file_owner" -> Err(<<"file not found with id">>)
      [] call.op \in {"get_file", "get_file_id"} -> OptNone
      [] OTHER -> Ok(0)

\* C24: after FileDatabase::close the registry answers the next call
\* (get_file, get_file_id, set_file_owner, register_file, open) as a newly
\* constructed FileDatabase does, the id of the first register_file included.
C24_CloseIsFresh ==
    [][(files_call.op = "close" /\ files_call' # files_call /\ files_call'.op # "edit") =>
          files_ret' = FreshReturn(files_call', files_disk)]_vars

\* C25: set_file_owner(id, user) returns the not-found error and changes
\* nothing when no record has the id; otherwise it sets the owner of the
\* record with the id and leaves that record's id, path and kind, every other
\* record, the record order and the id counter as they were.
C25_SetFileOwner ==
    [][files_call'.op = "set_file_owner" =>
         LET id == files_call'.id
             holders == {i \in DOMAIN data : data[i].id = id}
         IN  /\ curr_id' = curr_id
             /\ IF holders = {}
                  THEN files_ret' = Err(<<"file not found with id">>) /\ data' = data
                  ELSE /\ files_ret' = Ok(0)
                       /\ DOMAIN data' = DOMAIN data
                       /\ \E i \in holders :
                            /\ data'[i] = ServerFile(id, data[i].path, data[i].kind, Some(bob))
                            /\ \A j \in DOMAIN data : j # i => data'[j] = data[j]]_vars

\* alice's record, the first of two, has been given to bob; the other record
\* is as the document had it
C25_Witness ==
    /\ files_call = Call("set_file_owner", "", 1)
    /\ files_ret = Ok(0)
    /\ data = <<ServerFile(1, "p1", "text", Some(bob)), ServerFile(2, "p2", "text", None)>>
    /\ curr_id = 2

\* C27: get_user and get_user_mut return the same for every name: nothing
\* while the database is unopened (a failed open included) or no record has
\* the name, and the first record with the name otherwise.
C27_LookupsAgree ==
    /\ \A n \in UserNames :
          get_user(users_path, users, n) = get_user_mut(users_path, users, n)
    /\ users_call.op \in {"get_user", "get_user_mut"} =>
          users_ret = IF users_path = None \/ ~Listed(users, users_call.name)
                        THEN RetNone
                        ELSE RetSomeCred(FirstNamed(users, users_call.name))

\* C28: register_file with a path that does not exist on disk returns an
\* error and leaves the record list and the id counter as they were.
C28_RejectedRegistration ==
    [][(files_call'.op = "register_file" /\ files_call'.path \notin OnDisk) =>
          /\ ~files_ret'.ok
          /\ data' = data
          /\ curr_id' = curr_id]_vars

\* C30: once the telemetry store is open, every step leaves the record list
\* it had as a prefix of the record list it has: no call removes, reorders or
\* modifies a stored record.
C30_AppendOnly ==
    [][stats_path # None => IsPrefixOf(stats, stats')]_vars

\* a record was appended to the one the store loaded, and a repeated open
\* has then been refused
C30_Witness ==
    /\ stats_path # None
    /\ loaded = 1 /\ Len(stats) = 2
    /\ tpc["t1"] = Thread("idle", OpenCall("stats.json"),
                          StatErr(<<"file already opened, at path", "stats.json">>))

\* C26: make_relative(p) has no result for a p that fails is_path_valid; for
\* a valid p it has one, and the path returned does not begin with the
\* component sequence of the sandbox root.
C26_MakeRelative ==
    ppc = "related" =>
        IF ~is_path_valid(probe) THEN relative = None
        ELSE relative # None /\ ~HasRootPrefix(relative[1])

\* a side-file that was absent or empty when the server started
Fresh(doc) == doc \in {Missing, EmptyText}

\* C29: after ensure_directories (the directories in place) has dealt with
\* the side-files users.json, files.json and stats.json that were absent or
\* empty, opening the user directory, the file registry and the telemetry
\* store on them succeeds and yields an empty record list.
C29_StartupOpens ==
    (ensured # None /\ ensured[1].line # 38) =>
        /\ (files_call.op = "open" /\ Fresh(files_disk[file_owner_db_path])) =>
               (files_ret = Ok(0) /\ is_open(file_path) /\ data = <<>>)
        /\ (users_call.op = "open" /\ Fresh(users_open_doc[1])) =>
               (users_ret = RetOk /\ users = <<>>)
        /\ (/\ tpc["t1"].call.op = "open"
            /\ tpc["t1"].pc # "locked"
            /\ Fresh(stats_disk[network_analyzer_path])) =>
               (tpc["t1"].pc # "panicked" /\ tpc["t1"].ret = StatOk /\ stats = <<>>)

\* an iteration of the receive loop whose read finds the stream ended: the
\* peer has closed and every byte it wrote has been read
EndOfStreamRead ==
    /\ rpc = "loop" /\ peer = "closed" /\ stream = <<>>
    /\ reads' = reads + 1

\* C31: once the peer has closed the connection before frame_count * 4096
\* bytes have arrived, receive_network_data returns instead of looping for
\* ever and delivers no further byte: an iteration whose read finds the
\* stream ended delivers nothing, and it either returns or moves the loop
\* towards its end (an iteration that leaves frame_size and windows_so_far
\* as they were meets the same loop condition and the same read again).
C31_EndOfStreamReturns ==
    [][EndOfStreamRead =>
         /\ result' = result
         /\ \/ rpc' \in {"true", "false"}
            \/ frame_size' # frame_size
            \/ windows_so_far' # windows_so_far]_vars

\* an iteration of the receive loop that reaches `frame_size -= len as u32`:
\* the read returned Ok(len) and the callback returned true
SubtractsLen ==
    /\ rpc = "loop"
    /\ reads' = reads + 1
    /\ stream' = Drop(stream, Len(stream) - Len(stream'))
    /\ rpc' # "false"

\* C32: the remaining-byte counter stays within the u32 range: for every
\* frame count and every read length, the product frame_count * 4096 computed
\* on entry does not overflow, and no iteration subtracts a read length
\* greater than frame_size.
C32_CounterInRange ==
    [][/\ (rpc = "idle" /\ rpc' # "idle" /\ frame_count' # 0)
          => ~MulBuffSizeOverflows(frame_count')
       /\ SubtractsLen => U32AtLeast(frame_size, Len(stream) - Len(stream'))]_vars

=============================================================================
